---------------------------- MODULE Spec2Model ----------------------------
(***************************************************************************)
(* Credit ledger, task dispatch and bot pool of the agent backend.         *)
(*                                                                         *)
(* The persistent store is modelled by its committed tables.  Every        *)
(* request handler runs in a worker with a database session of its own:    *)
(* a SELECT copies committed rows into the worker (its snapshot), the ORM  *)
(* computes new attribute values in process memory, and commit() issues    *)
(* an UPDATE that sets only the columns whose value differs from the one   *)
(* that was loaded.  No handler takes a row lock, so commits of other      *)
(* workers may fall between a handler's SELECT and its commit.             *)
(***************************************************************************)
EXTENDS Integers, Sequences, FiniteSets, TLC

\* ------------------------------------------------------------------ bounds
NumWorkers == 2     \* request handlers in flight at the same time
MaxClients == 2     \* client ids are 1..MaxClients
MaxBots == 2        \* bot ids are 1..MaxBots
MaxOps == 4         \* requests started in one behaviour
MaxGrant == 1       \* credits carried by a payment event
MaxAmount == 2      \* amount of a direct deduct_credits call
MaxTwilioChannels == 1  \* channels rows that carry a twilio_number

\* ------------------------------------------------------- program constants
\* os.getenv("STARTER_CREDITS", "50"): a deployment setting; the grant of
\* one credit puts an exhausted balance within reach of a few requests.
STARTER_CREDITS == 1
COST_TELEGRAM_MSG == 1
COST_EMAIL == 2
COST_VOIP_PER_MIN == 2
COST_SMS == 1
COST_WEB_WIDGET == 1
DEFAULT_COST == 1
\* os.getenv("STARTER_PLAN_CREDITS", "500"), "GROWTH_PLAN_CREDITS" and
\* "PAYG_CREDITS_PER_10": deployment settings, kept small like the starter
\* credits
STARTER_PLAN_CREDITS == 2
GROWTH_PLAN_CREDITS == 7
PAYG_CREDITS_PER_10 == 1

Workers == 1..NumWorkers
ClientIds == 1..MaxClients
BotIds == 1..MaxBots

NoRow == [absent |-> TRUE]
None == 0

\* BotStatus
AVAILABLE == "available"
ASSIGNED == "assigned"
RETIRED == "retired"

\* TransactionType
PURCHASE == "purchase"
DEDUCT == "deduct"
REFUND == "refund"
WELCOME == "welcome"

\* replies of AgentEngine.execute
NOT_CONFIGURED == "Error: Agent not configured"
OUT_OF_CREDITS == "You've run out of credits. Reply 'buy credits' to top up."
APOLOGY == "Sorry, I encountered an error. Please try again."
RESPONSE == "<runtime response>"

\* channel types that reach _dispatch_incoming_message
DispatchChannels == {"telegram", "sms", "voip"}

\* outcomes of `await self.runtime.run(...)`: the response text, an
\* exception raised by the adapter (RuntimeError, httpx.HTTPStatusError),
\* the httpx timeout (httpx.TimeoutException, an Exception), or the
\* cancellation of the task at the await (asyncio.CancelledError, which
\* derives from BaseException).
RunOutcomes == {"ok", "error", "timeout", "cancelled"}

VARIABLES
    clients,              \* ids of the rows of table clients
    agent_configs,        \* client ids that have an agent_configs row
    channels,             \* client id -> bot id of its channels row, or None
    channel_active,       \* client id -> column active of that row
    twilio_channels,      \* the channels rows that carry a twilio_number
    credit_accounts,      \* client id -> credit_accounts row, or NoRow
    credit_transactions,  \* table credit_transactions, in insertion order
    bot_pool,             \* bot id -> bot_pool row, or NoRow
    setup_sessions,       \* table setup_sessions, in insertion order
    wk,                   \* worker -> the request it is handling
    ops                   \* number of requests started

vars == <<clients, agent_configs, channels, channel_active, twilio_channels,
          credit_accounts, credit_transactions, bot_pool, setup_sessions,
          wk, ops>>

dbLedger == <<credit_accounts, credit_transactions>>
dbPool == <<bot_pool>>
dbChannels == <<channel_active, twilio_channels>>
dbTenant == <<clients, agent_configs, channels, dbChannels>>
dbSetup == <<setup_sessions>>

\* ---------------------------------------------------------------- helpers
RECURSIVE SumAmounts(_)
SumAmounts(s) == IF s = <<>> THEN 0 ELSE Head(s).amount + SumAmounts(Tail(s))

TxnsOf(c) == SelectSeq(credit_transactions, LAMBDA t : t.client_id = c)

TxnsBy(o) == SelectSeq(credit_transactions, LAMBDA t : t.op = o)

TxnsByType(o, ty) ==
    SelectSeq(credit_transactions, LAMBDA t : t.op = o /\ t.type = ty)

Min(S) == CHOOSE x \in S : \A y \in S : x <= y
Max(S) == CHOOSE x \in S : \A y \in S : x >= y

IdleWorker ==
    [pc |-> "idle", op |-> "none", id |-> 0, client |-> None,
     channel |-> "none", amount |-> 0, snap |-> NoRow, pre |-> NoRow,
     deducted |-> FALSE, outcome |-> "none", reply |-> "none",
     result |-> "none", bot |-> None, source |-> "none", usage |-> 0,
     msg |-> "none", intent |-> "none", sid |-> None, flow |-> "none",
     validated |-> FALSE, handled |-> "none", reported |-> 0,
     event |-> "none", form |-> "none", hook |-> "none", to |-> "none",
     config |-> "none", prompt |-> "none", runs |-> 0, sends |-> 0,
     sent |-> "none"]

CanStart(w) == wk[w].pc = "idle" /\ ops < MaxOps

Begin(w, fields) == [x \in DOMAIN IdleWorker |->
                        IF x \in DOMAIN fields THEN fields[x]
                        ELSE IF x = "id" THEN ops + 1 ELSE IdleWorker[x]]

With(rec, fields) == [x \in DOMAIN rec |->
                        IF x \in DOMAIN fields THEN fields[x] ELSE rec[x]]

\* ---------------------------------------------------------------- strings
UPPERCASE == "ABCDEFGHIJKLMNOPQRSTUVWXYZ"
LOWERCASE == "abcdefghijklmnopqrstuvwxyz"

\* the character of a text at position i
Char(text, i) == SubSeq(text, i, i)

\* str.lower() on one character
LowerChar(ch) ==
    IF \E i \in 1..Len(UPPERCASE) : Char(UPPERCASE, i) = ch
    THEN Char(LOWERCASE,
              CHOOSE i \in 1..Len(UPPERCASE) : Char(UPPERCASE, i) = ch)
    ELSE ch

RECURSIVE LowerFrom(_, _)
LowerFrom(text, i) ==
    IF i > Len(text) THEN ""
    ELSE LowerChar(Char(text, i)) \o LowerFrom(text, i + 1)

\* the `in` of two strings: keyword occurs in text as a substring
IsSubstring(keyword, text) ==
    \E i \in 1..(Len(text) - Len(keyword) + 1) :
        SubSeq(text, i, i + Len(keyword) - 1) = keyword

\* the characters that str.strip() removes
WHITESPACE == {" ", "\t", "\n", "\r"}

\* str.strip()
RECURSIVE StripLeft(_)
StripLeft(text) ==
    IF Len(text) > 0 /\ Char(text, 1) \in WHITESPACE
    THEN StripLeft(SubSeq(text, 2, Len(text)))
    ELSE text

RECURSIVE StripRight(_)
StripRight(text) ==
    IF Len(text) > 0 /\ Char(text, Len(text)) \in WHITESPACE
    THEN StripRight(SubSeq(text, 1, Len(text) - 1))
    ELSE text

Strip(text) == StripRight(StripLeft(text))

DIGITS == "0123456789"

IsDigit(ch) == \E i \in 1..Len(DIGITS) : Char(DIGITS, i) = ch

DigitValue(ch) == (CHOOSE i \in 1..Len(DIGITS) : Char(DIGITS, i) = ch) - 1

\* the number written by the first n characters of a run of digits
RECURSIVE DigitsValue(_, _)
DigitsValue(text, n) ==
    IF n = 0 THEN 0
    ELSE 10 * DigitsValue(text, n - 1) + DigitValue(Char(text, n))

\* a numeral without its sign
Unsigned(text) ==
    IF Len(text) > 0 /\ Char(text, 1) \in {"+", "-"}
    THEN SubSeq(text, 2, Len(text))
    ELSE text

\* int(text) succeeds: blanks around an optional sign and decimal digits
IsIntText(text) ==
    LET digits == Unsigned(Strip(text)) IN
    /\ Len(digits) > 0
    /\ \A i \in 1..Len(digits) : IsDigit(Char(digits, i))

\* int(text)
ParseInt(text) ==
    LET digits == Unsigned(Strip(text))
        magnitude == DigitsValue(digits, Len(digits)) IN
    IF Char(Strip(text), 1) = "-" THEN -magnitude ELSE magnitude

\* --------------------------------------------------------- credit ledger
Transaction(c, amt, ty, o) ==
    [client_id |-> c, amount |-> amt, type |-> ty, op |-> o]

\* the check without its balance comparison
SufficientAnyBalance(account, amount) == account # NoRow

\* credit_manager.py:71 and agent_engine.py:244
Sufficient(account, amount) == account # NoRow /\ account.balance >= amount

\* The UPDATE of a flush: a column is written iff the attribute's value in
\* memory differs from the value that was loaded; the other columns keep
\* what is committed.
Flush(row, loaded, object) ==
    [f \in DOMAIN row |-> IF object[f] # loaded[f] THEN object[f] ELSE row[f]]

\* agent_engine.py:248-249 and credit_manager.py:74-75
Deducted(loaded, amount) ==
    [loaded EXCEPT !.balance = loaded.balance - amount,
                   !.total_used = loaded.total_used + amount]

\* agent_engine.py:281-282
Refunded(loaded, amount) ==
    [loaded EXCEPT !.balance = loaded.balance + amount,
                   !.total_used = loaded.total_used - amount]

\* credit_manager.py:33-44
Added(loaded, amount) ==
    IF loaded = NoRow
    THEN [balance |-> amount, total_purchased |-> amount, total_used |-> 0]
    ELSE [loaded EXCEPT !.balance = loaded.balance + amount,
                        !.total_purchased = loaded.total_purchased + amount]

\* webhooks.py:364-368: the label handed to add_credits
SourceLabel(event_type) ==
    IF event_type = "checkout.session.completed"
    THEN "Stripe checkout purchase"
    ELSE "Stripe invoice renewal"

\* credit_manager.py:50: "purchase" in source.lower()
MentionsPurchase(source) == IsSubstring("purchase", LowerFrom(source, 1))

SourceType(source) == IF MentionsPurchase(source) THEN PURCHASE ELSE WELCOME

\* the table that charges the default for every channel
CreditCostFlat(channel_type) == DEFAULT_COST

\* agent_engine.py:220-229
CreditCost(channel_type) ==
    CASE channel_type = "telegram" -> COST_TELEGRAM_MSG
      [] channel_type = "email" -> COST_EMAIL
      [] channel_type = "voip" -> COST_VOIP_PER_MIN
      [] channel_type = "sms" -> COST_SMS
      [] channel_type = "web_widget" -> COST_WEB_WIDGET
      [] OTHER -> DEFAULT_COST

Init ==
    /\ clients = {}
    /\ agent_configs = {}
    /\ channels = [c \in ClientIds |-> None]
    /\ channel_active = [c \in ClientIds |-> TRUE]
    /\ twilio_channels = <<>>
    /\ credit_accounts = [c \in ClientIds |-> NoRow]
    /\ credit_transactions = <<>>
    /\ bot_pool = [b \in BotIds |-> NoRow]
    /\ setup_sessions = <<>>
    /\ wk = [w \in Workers |-> IdleWorker]
    /\ ops = 0


Set(w, fields) == [wk EXCEPT ![w] = [x \in DOMAIN IdleWorker |->
                      IF x \in DOMAIN fields THEN fields[x] ELSE wk[w][x]]]

\* clients whose onboarding has committed its channel: the only clients an
\* inbound event or a checkout can name
Onboarded == {c \in ClientIds : channels[c] # None}

\* ------------------------------------------------------------- bot pool
BotRow(st, owner) == [status |-> st, assigned_to_client_id |-> owner]

\* the selection without its filter on the status
PooledBots(pool) == {b \in BotIds : pool[b] # NoRow}

\* bot_pool.py:92-93
AvailableBots(pool) ==
    {b \in BotIds : pool[b] # NoRow /\ pool[b].status = AVAILABLE}

\* the selection of every bot that is not available, whoever owns it
NotAvailableBots(pool, c) ==
    {b \in BotIds : pool[b] # NoRow /\ pool[b].status # AVAILABLE}

\* bot_pool.py:113-117
AssignedTo(pool, c) ==
    {b \in BotIds : /\ pool[b] # NoRow
                    /\ pool[b].assigned_to_client_id = c
                    /\ pool[b].status = ASSIGNED}

\* the last row of the result
LastOf(S) == Max(S)

\* bot_pool.py:99: available_bots[0], rows in rowid order
FirstOf(S) == Min(S)

\* bot_pool.py:100-101
Claimed(loaded, c) ==
    [loaded EXCEPT !.status = ASSIGNED, !.assigned_to_client_id = c]

\* the release without bot_pool.py:127
ReleasedKeepsOwner(loaded) == [loaded EXCEPT !.status = AVAILABLE]

\* bot_pool.py:126-127
Released(loaded) ==
    [loaded EXCEPT !.status = AVAILABLE, !.assigned_to_client_id = None]

\* the retirement without bot_pool.py:173
RetiredKeepsOwner(loaded) == [loaded EXCEPT !.status = RETIRED]

\* bot_pool.py:172-173
Retired(loaded) ==
    [loaded EXCEPT !.status = RETIRED, !.assigned_to_client_id = None]

\* BotPoolManager.add_bot, called by POST /admin/bots/add.  The token is
\* validated with Telegram before the database is touched; the row is
\* inserted and committed in one flush.
AddBot(w) ==
    /\ CanStart(w)
    /\ \E valid \in BOOLEAN :
        LET free == {b \in BotIds : bot_pool[b] = NoRow} IN
        IF valid
        THEN /\ free # {}
             /\ bot_pool' = [bot_pool EXCEPT
                                ![Min(free)] = BotRow(AVAILABLE, None)]
             /\ wk' = [wk EXCEPT ![w] = Begin(w,
                    [pc |-> "done", op |-> "add_bot", bot |-> Min(free),
                     result |-> "added"])]
        ELSE /\ bot_pool' = bot_pool
             /\ wk' = [wk EXCEPT ![w] = Begin(w,
                    [pc |-> "done", op |-> "add_bot",
                     result |-> "ValueError"])]
    /\ ops' = ops + 1
    /\ UNCHANGED <<dbSetup, dbTenant, dbLedger>>

\* claim_agent, onboarding.py:41-69: the client row is committed, the agent
\* config is added to the session, and claim_bot selects the available
\* bots.  With none available claim_bot raises BotPoolExhaustedException;
\* the handler then deletes the client, whose flush blanks the client_id of
\* the pending agent config (a NOT NULL column), so the commit fails, the
\* outer handler rolls back and answers 500: the committed client row stays.
StartClaimAgent(w) ==
    /\ CanStart(w)
    /\ Cardinality(clients) < MaxClients
    /\ LET c == Cardinality(clients) + 1
           avail == AvailableBots(bot_pool) IN
        /\ clients' = clients \cup {c}
        /\ IF avail = {}
           THEN wk' = [wk EXCEPT ![w] = Begin(w,
                    [pc |-> "done", op |-> "claim_agent", client |-> c,
                     outcome |-> "BotPoolExhaustedException",
                     result |-> "500"])]
           ELSE wk' = [wk EXCEPT ![w] = Begin(w,
                    [pc |-> "claim_commit", op |-> "claim_agent",
                     client |-> c, bot |-> FirstOf(avail),
                     snap |-> bot_pool[FirstOf(avail)]])]
    /\ ops' = ops + 1
    /\ UNCHANGED <<dbSetup, agent_configs, channels, dbChannels, dbLedger,
                   dbPool>>

\* claim_bot, bot_pool.py:100-108: the commit also inserts the agent config
\* that claim_agent added to the same session.
ClaimCommit(w) ==
    /\ wk[w].pc = "claim_commit"
    /\ LET b == wk[w].bot IN
        bot_pool' = [bot_pool EXCEPT ![b] =
                        Flush(bot_pool[b], wk[w].snap,
                              Claimed(wk[w].snap, wk[w].client))]
    /\ agent_configs' = agent_configs \cup {wk[w].client}
    /\ wk' = Set(w, [pc |-> "claim_finish", outcome |-> "claimed"])
    /\ UNCHANGED <<dbSetup, clients, channels, dbChannels, dbLedger, ops>>

\* claim_agent, onboarding.py:71-93: channel and credit account
ClaimFinish(w) ==
    /\ wk[w].pc = "claim_finish"
    /\ channels' = [channels EXCEPT ![wk[w].client] = wk[w].bot]
    /\ channel_active' = [channel_active EXCEPT ![wk[w].client] = TRUE]
    /\ credit_accounts' = [credit_accounts EXCEPT ![wk[w].client] =
            [balance |-> STARTER_CREDITS,
             total_purchased |-> STARTER_CREDITS,
             total_used |-> 0]]
    /\ wk' = Set(w, [pc |-> "done", result |-> "200"])
    /\ UNCHANGED <<dbSetup, clients, agent_configs, twilio_channels,
                   credit_transactions, dbPool, ops>>

\* BotPoolManager.release_bot, bot_pool.py:113-120
StartRelease(w) ==
    /\ CanStart(w)
    /\ \E c \in ClientIds :
        LET mine == AssignedTo(bot_pool, c) IN
        IF mine = {}
        THEN wk' = [wk EXCEPT ![w] = Begin(w,
                [pc |-> "done", op |-> "release_bot", client |-> c,
                 result |-> "False"])]
        ELSE wk' = [wk EXCEPT ![w] = Begin(w,
                [pc |-> "release_commit", op |-> "release_bot",
                 client |-> c, bot |-> FirstOf(mine),
                 snap |-> bot_pool[FirstOf(mine)]])]
    /\ ops' = ops + 1
    /\ UNCHANGED <<dbSetup, dbTenant, dbLedger, dbPool>>

\* bot_pool.py:126-133
ReleaseCommit(w) ==
    /\ wk[w].pc = "release_commit"
    /\ LET b == wk[w].bot IN
        bot_pool' = [bot_pool EXCEPT ![b] =
                        Flush(bot_pool[b], wk[w].snap, Released(wk[w].snap))]
    /\ wk' = Set(w, [pc |-> "done", result |-> "True"])
    /\ UNCHANGED <<dbSetup, dbTenant, dbLedger, ops>>

\* BotPoolManager.retire_bot, bot_pool.py:166-170
StartRetire(w) ==
    /\ CanStart(w)
    /\ \E b \in BotIds :
        IF bot_pool[b] = NoRow
        THEN wk' = [wk EXCEPT ![w] = Begin(w,
                [pc |-> "done", op |-> "retire_bot", bot |-> b,
                 result |-> "False"])]
        ELSE wk' = [wk EXCEPT ![w] = Begin(w,
                [pc |-> "retire_commit", op |-> "retire_bot", bot |-> b,
                 snap |-> bot_pool[b]])]
    /\ ops' = ops + 1
    /\ UNCHANGED <<dbSetup, dbTenant, dbLedger, dbPool>>

\* bot_pool.py:172-178
RetireCommit(w) ==
    /\ wk[w].pc = "retire_commit"
    /\ LET b == wk[w].bot IN
        bot_pool' = [bot_pool EXCEPT ![b] =
                        Flush(bot_pool[b], wk[w].snap, Retired(wk[w].snap))]
    /\ wk' = Set(w, [pc |-> "done", result |-> "True"])
    /\ UNCHANGED <<dbSetup, dbTenant, dbLedger, ops>>

\* BotPoolManager.claim_bot called for a tenant that already exists,
\* bot_pool.py:91-99: the method selects the available bots and takes the
\* first; it does not look at what the tenant already owns.
StartClaimBot(w) ==
    /\ CanStart(w)
    /\ \E c \in clients :
        LET avail == AvailableBots(bot_pool) IN
        IF avail = {}
        THEN wk' = [wk EXCEPT ![w] = Begin(w,
                [pc |-> "done", op |-> "claim_bot", client |-> c,
                 outcome |-> "BotPoolExhaustedException"])]
        ELSE wk' = [wk EXCEPT ![w] = Begin(w,
                [pc |-> "claim_bot_commit", op |-> "claim_bot",
                 client |-> c, bot |-> FirstOf(avail),
                 snap |-> bot_pool[FirstOf(avail)]])]
    /\ ops' = ops + 1
    /\ UNCHANGED <<dbSetup, dbTenant, dbLedger, dbPool>>

\* bot_pool.py:100-108
ClaimBotCommit(w) ==
    /\ wk[w].pc = "claim_bot_commit"
    /\ LET b == wk[w].bot IN
        bot_pool' = [bot_pool EXCEPT ![b] =
                        Flush(bot_pool[b], wk[w].snap,
                              Claimed(wk[w].snap, wk[w].client))]
    /\ wk' = Set(w, [pc |-> "done", outcome |-> "claimed"])
    /\ UNCHANGED <<dbSetup, dbTenant, dbLedger, ops>>

\* BotPoolManager.get_bot_for_client, bot_pool.py:181-187: first() of the
\* tenant's assigned bots
GetBotForClient(pool, c) ==
    IF AssignedTo(pool, c) = {} THEN None ELSE FirstOf(AssignedTo(pool, c))

\* The handler has returned (or raised): the worker is free again.
Finish(w) ==
    /\ wk[w].pc = "done"
    /\ wk' = [wk EXCEPT ![w] = IdleWorker]
    /\ UNCHANGED <<dbSetup, dbTenant, dbLedger, dbPool, ops>>

\* ---------------------------------------------------------- payments
StripeGrantEvents == {"checkout.session.completed", "invoice.paid"}

\* _handle_stripe_event -> CreditManager.add_credits, credit_manager.py:30-31
StartGrant(w) ==
    /\ CanStart(w)
    /\ \E c \in Onboarded, amt \in 1..MaxGrant, ev \in StripeGrantEvents :
        wk' = [wk EXCEPT ![w] = Begin(w,
                [pc |-> "add_commit", op |-> "add_credits", client |-> c,
                 amount |-> amt, source |-> SourceLabel(ev),
                 snap |-> credit_accounts[c]])]
    /\ ops' = ops + 1
    /\ UNCHANGED <<dbSetup, dbTenant, dbLedger, dbPool>>

\* credit_manager.py:33-58
AddCommit(w) ==
    /\ wk[w].pc = "add_commit"
    /\ LET c == wk[w].client
           loaded == wk[w].snap
           object == Added(loaded, wk[w].amount) IN
        IF loaded = NoRow /\ credit_accounts[c] # NoRow
        THEN \* INSERT of a second row for the client: client_id is unique,
             \* the flush raises IntegrityError and nothing is committed
             /\ UNCHANGED dbLedger
             /\ wk' = Set(w, [pc |-> "done", result |-> "IntegrityError"])
        ELSE /\ credit_accounts' = [credit_accounts EXCEPT ![c] =
                    IF loaded = NoRow THEN object
                    ELSE Flush(credit_accounts[c], loaded, object)]
             /\ credit_transactions' = Append(credit_transactions,
                    Transaction(c, wk[w].amount, SourceType(wk[w].source),
                                wk[w].id))
             /\ wk' = Set(w, [pc |-> "done", result |-> "True"])
    /\ UNCHANGED <<dbSetup, dbTenant, dbPool, ops>>

\* ------------------------------------------------------- stripe events
\* a key the payload does not have: dict.get answers None
Absent == "<absent>"

\* the keys of an event that the handler reads: type and id of the event,
\* client_reference_id of data.object, and the rest from its metadata
NoEvent ==
    [type |-> Absent, id |-> Absent, client_reference_id |-> Absent,
     client_id |-> Absent, credits |-> Absent, credit_amount |-> Absent,
     credits_per_cycle |-> Absent, plan_credits |-> Absent,
     tier |-> Absent, plan |-> Absent]

EventNames ==
    {"checkout", "renewal by tier", "credit_amount", "no client",
     "no credits", "zero credits", "unknown tier", "payment failed",
     "customer created", "no id"}

\* the events that are delivered
Events ==
    [name \in EventNames |->
        CASE name = "checkout" ->
                With(NoEvent, [type |-> "checkout.session.completed",
                               id |-> "evt_1",
                               client_reference_id |-> "1",
                               credits |-> "1"])
          [] name = "renewal by tier" ->
                With(NoEvent, [type |-> "invoice.paid", id |-> "evt_2",
                               client_id |-> "1", tier |-> " Growth"])
          [] name = "credit_amount" ->
                With(NoEvent, [type |-> "checkout.session.completed",
                               id |-> "evt_3",
                               client_reference_id |-> "2",
                               credits |-> "", credit_amount |-> "1"])
          [] name = "no client" ->
                With(NoEvent, [type |-> "invoice.paid", id |-> "evt_4",
                               credits |-> "1"])
          [] name = "no credits" ->
                With(NoEvent, [type |-> "checkout.session.completed",
                               id |-> "evt_5",
                               client_reference_id |-> "1"])
          [] name = "zero credits" ->
                With(NoEvent, [type |-> "checkout.session.completed",
                               id |-> "evt_6", client_id |-> "1",
                               credits |-> "0"])
          [] name = "unknown tier" ->
                With(NoEvent, [type |-> "invoice.paid", id |-> "evt_7",
                               client_id |-> "1", plan |-> "gold"])
          [] name = "payment failed" ->
                With(NoEvent, [type |-> "payment_intent.failed",
                               id |-> "evt_8", client_id |-> "1",
                               credits |-> "1"])
          [] name = "customer created" ->
                With(NoEvent, [type |-> "customer.created",
                               id |-> "evt_9", client_id |-> "1",
                               credits |-> "1"])
          [] name = "no id" ->
                With(NoEvent, [type |-> "checkout.session.completed",
                               client_id |-> "2", credits |-> "1"])]

\* bool(value) of a string or None
Truthy(value) == value # Absent /\ value # ""

\* a or b
Or(a, b) == IF Truthy(a) THEN a ELSE b

\* _coerce_positive_int, webhooks.py:324-330
CoercePositiveInt(value) ==
    IF value # Absent /\ IsIntText(value) /\ ParseInt(value) > 0
    THEN ParseInt(value)
    ELSE None

\* _tier_credit_map().get(tier), webhooks.py:333-339
TierCreditMap(tier) ==
    CASE tier = "starter" -> STARTER_PLAN_CREDITS
      [] tier = "growth" -> GROWTH_PLAN_CREDITS
      [] tier = "payg" -> PAYG_CREDITS_PER_10
      [] OTHER -> None

\* the extraction that takes the credits of the event for granted
ExtractCreditGrantAnyCredits(event_type, event_object) ==
    [client_id |-> CoercePositiveInt(Or(event_object.client_id,
                                        event_object.client_reference_id)),
     credits |-> 1,
     source_label |-> SourceLabel(event_type)]

\* _extract_credit_grant, webhooks.py:346-368, for the two event types
\* that reach it
ExtractCreditGrant(event_type, event_object) ==
    LET client_id ==
            CoercePositiveInt(Or(event_object.client_id,
                                 event_object.client_reference_id))
        credits ==
            CoercePositiveInt(
                Or(event_object.credits,
                   Or(event_object.credit_amount,
                      Or(event_object.credits_per_cycle,
                         event_object.plan_credits))))
        named == Or(event_object.tier, Or(event_object.plan, ""))
        tier == LowerFrom(Strip(IF named = Absent THEN "" ELSE named), 1) IN
    [client_id |-> client_id,
     credits |-> IF credits = None THEN TierCreditMap(tier) ELSE credits,
     source_label |-> SourceLabel(event_type)]

\* webhooks.py:424-425 for every event, computed once
GrantOf ==
    [name \in EventNames |->
        ExtractCreditGrant(Events[name].type, Events[name])]

\* _handle_stripe_event up to the SELECT of add_credits, webhooks.py:404-444
\* and credit_manager.py:30-31
HandleStripeEvent(w) ==
    /\ CanStart(w)
    /\ \E name \in EventNames :
        LET event == Events[name]
            event_type == event.type
            event_id == IF event.id = Absent THEN "unknown" ELSE event.id
            grant == GrantOf[name]
            rec == Begin(w, [op |-> "stripe_event", event |-> name]) IN
        wk' = [wk EXCEPT ![w] =
            IF event_type = "payment_intent.failed"
            THEN With(rec, [pc |-> "done",
                            result |-> "Payment failure recorded"])
            ELSE IF event_type \notin StripeGrantEvents
            THEN With(rec, [pc |-> "done", result |-> "Event ignored"])
            ELSE IF grant.client_id = None
            THEN With(rec, [pc |-> "done",
                            result |-> "Missing client_id metadata"])
            ELSE IF grant.credits = None
            THEN With(rec, [pc |-> "done",
                            result |-> "Missing credits metadata"])
            ELSE With(rec, [pc |-> "add_commit",
                            client |-> grant.client_id,
                            amount |-> grant.credits,
                            source |-> grant.source_label \o " (event="
                                          \o event_id \o ")",
                            snap |-> credit_accounts[grant.client_id]])]
    /\ ops' = ops + 1
    /\ UNCHANGED <<dbSetup, dbTenant, dbLedger, dbPool>>

\* Stripe events delivered to tenants that are being onboarded
StripeNext ==
    \E w \in Workers :
        \/ AddBot(w)
        \/ StartClaimAgent(w)
        \/ ClaimCommit(w)
        \/ ClaimFinish(w)
        \/ HandleStripeEvent(w)
        \/ AddCommit(w)
        \/ Finish(w)

SpecStripe == Init /\ [][StripeNext]_vars

\* ------------------------------------------------------ system prompt
\* the fields of an AgentConfig that the compiler reads
Configs ==
    [agent_name : {"Ann's Agent", "Alfred"},
     personality : {"formal", "friendly", "brief", "gruff"},
     language : {"en", "fr"},
     custom_instructions : {Absent, "", "We sell shoes."}]

\* personality_styles.get(personality, "helpful and professional"),
\* compiler.py:22-28
PersonalityStyle(personality) ==
    CASE personality = "formal" -> "professional, formal, and business-like"
      [] personality = "friendly" -> "warm, friendly, and approachable"
      [] personality = "brief" -> "concise, brief, and to-the-point"
      [] OTHER -> "helpful and professional"

\* the f-string of compiler.py:30-44
PromptText(config) ==
    "You are " \o config.agent_name \o ".\n\n"
    \o "Communication style: " \o PersonalityStyle(config.personality)
    \o "\n"
    \o "Primary language: " \o config.language \o "\n\n"
    \o "About the business:\n"
    \o Or(config.custom_instructions,
          "I help businesses automate their operations with AI.")
    \o "\n\n"
    \o "Guidelines:\n"
    \o "- Always be helpful, concise, and stay in character\n"
    \o "- If you cannot help with something, say so clearly and suggest alternatives\n"
    \o "- Remember: users configure everything by talking to you\n"
    \o "- Guide them through setup naturally\n"
    \o "- Be proactive in suggesting next steps\n"

\* a compiler that stamps the prompt with the number of requests so far
CompileStamped(config) == Strip(PromptText(config) \o ToString(ops))

\* SystemPromptCompiler.compile, compiler.py:11-46
Compile(config) == Strip(PromptText(config))

\* SystemPromptCompiler.compile called with a configuration
ApiCompile(w) ==
    /\ CanStart(w)
    /\ \E config \in Configs :
        wk' = [wk EXCEPT ![w] = Begin(w,
                [pc |-> "done", op |-> "compile", config |-> config,
                 prompt |-> Compile(config)])]
    /\ ops' = ops + 1
    /\ UNCHANGED <<dbSetup, dbTenant, dbLedger, dbPool>>

\* the compiler called between onboardings and grants
CompileNext ==
    \E w \in Workers :
        \/ AddBot(w)
        \/ StartClaimAgent(w)
        \/ ClaimCommit(w)
        \/ ClaimFinish(w)
        \/ StartGrant(w)
        \/ AddCommit(w)
        \/ ApiCompile(w)
        \/ Finish(w)

SpecCompile == Init /\ [][CompileNext]_vars

\* request.name of the onboarding that created client c
UserName(c) == IF c = 1 THEN "Ann" ELSE "Bob"

\* the agent_configs row of client c: claim_agent inserts it
\* (onboarding.py:51-56) with the defaults of models.py:106-107, and no
\* handler writes it afterwards
AgentConfigRow(c) ==
    [client_id |-> c, agent_name |-> UserName(c) \o "'s Agent",
     personality |-> "friendly", language |-> "en",
     custom_instructions |-> Absent, compiled_system_prompt |-> Absent]

DEFAULT_PROMPT == "You are a helpful AI assistant."

\* agent_engine.py:189
SystemPrompt(c) ==
    Or(AgentConfigRow(c).compiled_system_prompt, DEFAULT_PROMPT)

\* ---------------------------------------------------------- dispatch
\* the lookup that finds a configuration for every client
LoadConfigAlways(c) == TRUE

\* _load_config, agent_engine.py:204-210
LoadConfig(c) == c \in agent_configs

\* an engine that calls the runtime before it has deducted anything
EngineRunsFirst(rec, c, ch) ==
    With(rec, [pc |-> "running", amount |-> CreditCost(ch),
               pre |-> credit_accounts[c], runs |-> rec.runs + 1])

\* AgentEngine.execute up to the check of the balance
\* (agent_engine.py:174-181 and 241-245): load the config, compute the
\* cost, select the credit account.  `rec` is the request as the caller
\* started it.
Engine(rec, c, ch) ==
    LET cost == CreditCost(ch)
        loaded == credit_accounts[c] IN
    With(rec,
         IF ~LoadConfig(c)
         THEN [pc |-> "replied", pre |-> loaded, reply |-> NOT_CONFIGURED]
         ELSE IF ~Sufficient(loaded, cost)
         THEN [pc |-> "replied", amount |-> cost, pre |-> loaded,
               reply |-> OUT_OF_CREDITS]
         ELSE [pc |-> "deduct_commit", amount |-> cost, pre |-> loaded,
               snap |-> loaded])

Execute(w, c, ch) ==
    /\ wk' = [wk EXCEPT ![w] =
                Engine(Begin(w, [op |-> "dispatch", client |-> c,
                                 channel |-> ch]), c, ch)]
    /\ ops' = ops + 1
    /\ UNCHANGED <<dbSetup, dbTenant, dbLedger, dbPool>>

\* An inbound event of an active channel (telegram_webhook, sms_webhook,
\* voice_webhook) is dispatched to AgentEngine.execute.
StartDispatch(w) ==
    /\ CanStart(w)
    /\ \E c \in Onboarded, ch \in DispatchChannels : Execute(w, c, ch)

\* _check_and_deduct_credits, agent_engine.py:247-264, and the call of
\* the runtime with its system prompt, agent_engine.py:188-192
DeductCommit(w) ==
    /\ wk[w].pc = "deduct_commit"
    /\ LET c == wk[w].client IN
        /\ credit_accounts' = [credit_accounts EXCEPT ![c] =
                Flush(credit_accounts[c], wk[w].snap,
                      Deducted(wk[w].snap, wk[w].amount))]
        /\ credit_transactions' = Append(credit_transactions,
                Transaction(c, -wk[w].amount, DEDUCT, wk[w].id))
    /\ wk' = Set(w, [pc |-> "running", deducted |-> TRUE,
                     prompt |-> SystemPrompt(wk[w].client),
                     runs |-> wk[w].runs + 1])
    /\ UNCHANGED <<dbSetup, dbTenant, dbPool, ops>>

\* agent_engine.py:183-197: the runtime answers; _save_memory is a stub
\* that does nothing.
RunOk(w) ==
    /\ wk[w].pc = "running"
    /\ wk' = Set(w, [pc |-> "replied", outcome |-> "ok", reply |-> RESPONSE])
    /\ UNCHANGED <<dbSetup, dbTenant, dbLedger, dbPool, ops>>

\* agent_engine.py:199-201 and 277-280: an Exception of the runtime enters
\* the handler, and _refund_credits selects the account.
RunFails(w) ==
    /\ wk[w].pc = "running"
    /\ \E o \in RunOutcomes \ {"ok", "cancelled"} :
        IF credit_accounts[wk[w].client] = NoRow
        THEN wk' = Set(w, [pc |-> "replied", outcome |-> o,
                           reply |-> APOLOGY])
        ELSE wk' = Set(w, [pc |-> "refund_commit", outcome |-> o,
                           snap |-> credit_accounts[wk[w].client]])
    /\ UNCHANGED <<dbSetup, dbTenant, dbLedger, dbPool, ops>>

\* The task is cancelled while it awaits the runtime: CancelledError is no
\* Exception, so neither agent_engine.py:199 nor the webhook's handler
\* catches it, and the request ends there.
RunCancelled(w) ==
    /\ wk[w].pc = "running"
    /\ wk' = Set(w, [pc |-> "done", outcome |-> "cancelled",
                     result |-> "CancelledError"])
    /\ UNCHANGED <<dbSetup, dbTenant, dbLedger, dbPool, ops>>

\* _refund_credits, agent_engine.py:281-294, then agent_engine.py:202
RefundCommit(w) ==
    /\ wk[w].pc = "refund_commit"
    /\ LET c == wk[w].client IN
        /\ credit_accounts' = [credit_accounts EXCEPT ![c] =
                Flush(credit_accounts[c], wk[w].snap,
                      Refunded(wk[w].snap, wk[w].amount))]
        /\ credit_transactions' = Append(credit_transactions,
                Transaction(c, wk[w].amount, REFUND, wk[w].id))
    /\ wk' = Set(w, [pc |-> "replied", reply |-> APOLOGY])
    /\ UNCHANGED <<dbSetup, dbTenant, dbPool, ops>>

\* CreditManager.deduct_credits up to the check of the balance
\* (credit_manager.py:68-72); `rec` is the caller's state when the call
\* returns False.
DeductCredits(w, rec, c, total) ==
    LET loaded == credit_accounts[c] IN
    IF ~Sufficient(loaded, total)
    THEN [x \in DOMAIN rec |->
            IF x = "pc" THEN "done" ELSE IF x = "result" THEN "False"
            ELSE IF x = "usage" THEN total ELSE rec[x]]
    ELSE [x \in DOMAIN rec |->
            IF x = "pc" THEN "usage_commit" ELSE IF x = "usage" THEN total
            ELSE IF x = "snap" THEN loaded ELSE rec[x]]

\* the fields of Twilio's form that carry the duration of the call
NoDuration == [CallDuration |-> Absent, CallDurationSeconds |-> Absent]

TwilioFormNames ==
    {"59s", "60s", "61s", "125s", "no duration", "not a number", "decimal",
     "zero", "negative", "seconds field"}

TwilioForms ==
    [name \in TwilioFormNames |->
        CASE name = "59s" -> With(NoDuration, [CallDuration |-> "59"])
          [] name = "60s" -> With(NoDuration, [CallDuration |-> "60"])
          [] name = "61s" -> With(NoDuration, [CallDuration |-> "61"])
          [] name = "125s" -> With(NoDuration, [CallDuration |-> "125"])
          [] name = "no duration" -> NoDuration
          [] name = "not a number" ->
                With(NoDuration, [CallDuration |-> "soon"])
          [] name = "decimal" -> With(NoDuration, [CallDuration |-> "61.5"])
          [] name = "zero" -> With(NoDuration, [CallDuration |-> "0"])
          [] name = "negative" -> With(NoDuration, [CallDuration |-> "-5"])
          [] name = "seconds field" ->
                With(NoDuration, [CallDuration |-> "",
                                  CallDurationSeconds |-> "61"])]

\* int(math.ceil(duration_seconds / 60.0)) for a positive number of seconds
CeilMinutes(duration_seconds) ==
    IF duration_seconds % 60 = 0
    THEN duration_seconds \div 60
    ELSE duration_seconds \div 60 + 1

\* the extraction that counts the minutes that were completed
ExtractTwilioMinutesFloor(form_data) ==
    LET duration_value == Or(form_data.CallDuration,
                             form_data.CallDurationSeconds) IN
    IF duration_value = Absent \/ ~IsIntText(duration_value)
    THEN 0
    ELSE IF ParseInt(duration_value) <= 0
    THEN 0
    ELSE ParseInt(duration_value) \div 60

\* _extract_twilio_minutes, webhooks.py:159-170: int(None) raises
\* TypeError, int() of a text that is no integer raises ValueError
ExtractTwilioMinutes(form_data) ==
    LET duration_value == Or(form_data.CallDuration,
                             form_data.CallDurationSeconds) IN
    IF duration_value = Absent \/ ~IsIntText(duration_value)
    THEN 0
    ELSE IF ParseInt(duration_value) <= 0
    THEN 0
    ELSE CeilMinutes(ParseInt(duration_value))

MinutesOf == [name \in TwilioFormNames |->
                ExtractTwilioMinutes(TwilioForms[name])]

\* webhooks.py:203 and 310: the reply_text of the `except Exception` branch
TELEGRAM_FALLBACK == "Sorry, I ran into an error while processing that. Please try again."
SMS_FALLBACK == "Sorry, I had trouble processing your message. Please try again."

\* webhooks.py:195-203 and 302-310: the text the dispatch returned, or the
\* fallback text when it raised an Exception
ReplyText(rec) ==
    IF rec.result = "AttributeError"
    THEN IF rec.channel = "sms" THEN SMS_FALLBACK ELSE TELEGRAM_FALLBACK
    ELSE rec.reply

\* The webhook has the reply.  telegram_webhook and sms_webhook send it
\* through the channel's integration (webhooks.py:205 and 312-319);
\* voice_webhook builds the voice response and then reads the duration of
\* the call from its form and bills the minutes through
\* CreditManager.deduct_credits (webhooks.py:260-280).
AfterReply(w) ==
    /\ wk[w].pc = "replied"
    /\ IF wk[w].channel # "voip"
       THEN wk' = Set(w, [pc |-> "done", result |-> "sent",
                          sends |-> wk[w].sends + 1,
                          sent |-> ReplyText(wk[w])])
       ELSE \E name \in TwilioFormNames :
            LET minutes == MinutesOf[name]
                rec == With(wk[w], [form |-> name]) IN
            IF minutes > 0
            THEN wk' = [wk EXCEPT ![w] =
                    DeductCredits(w, rec, wk[w].client,
                                  minutes * COST_VOIP_PER_MIN)]
            ELSE wk' = [wk EXCEPT ![w] =
                    With(rec, [pc |-> "done", result |-> "sent"])]
    /\ UNCHANGED <<dbSetup, dbTenant, dbLedger, dbPool, ops>>

\* CreditManager.deduct_credits, credit_manager.py:74-89
UsageCommit(w) ==
    /\ wk[w].pc = "usage_commit"
    /\ LET c == wk[w].client IN
        /\ credit_accounts' = [credit_accounts EXCEPT ![c] =
                Flush(credit_accounts[c], wk[w].snap,
                      Deducted(wk[w].snap, wk[w].usage))]
        /\ credit_transactions' = Append(credit_transactions,
                Transaction(c, -wk[w].usage, DEDUCT, wk[w].id))
    /\ wk' = Set(w, [pc |-> "done", result |-> "True"])
    /\ UNCHANGED <<dbSetup, dbTenant, dbPool, ops>>

\* voice_webhook for a call to the number of a tenant's channel,
\* webhooks.py:234-256
VoiceWebhook(w) ==
    /\ CanStart(w)
    /\ \E c \in Onboarded : Execute(w, c, "voip")

\* calls to the numbers of tenants whose payments arrive meanwhile
VoiceNext ==
    \E w \in Workers :
        \/ AddBot(w)
        \/ StartClaimAgent(w)
        \/ ClaimCommit(w)
        \/ ClaimFinish(w)
        \/ HandleStripeEvent(w)
        \/ AddCommit(w)
        \/ VoiceWebhook(w)
        \/ DeductCommit(w)
        \/ RunOk(w)
        \/ RunFails(w)
        \/ RunCancelled(w)
        \/ RefundCommit(w)
        \/ AfterReply(w)
        \/ UsageCommit(w)
        \/ Finish(w)

SpecVoice == Init /\ [][VoiceNext]_vars

\* ------------------------------------------------------ specifications
Step(w) ==
    \/ AddBot(w)
    \/ StartClaimAgent(w)
    \/ ClaimCommit(w)
    \/ ClaimFinish(w)
    \/ StartRelease(w)
    \/ ReleaseCommit(w)
    \/ StartRetire(w)
    \/ RetireCommit(w)
    \/ StartGrant(w)
    \/ AddCommit(w)
    \/ StartDispatch(w)
    \/ DeductCommit(w)
    \/ RunOk(w)
    \/ RunFails(w)
    \/ RunCancelled(w)
    \/ RefundCommit(w)
    \/ AfterReply(w)
    \/ UsageCommit(w)
    \/ Finish(w)

Next == \E w \in Workers : Step(w)

Spec == Init /\ [][Next]_vars

\* The same handlers called one after the other: a single worker takes
\* every request, so no two requests overlap.
SeqNext == \E w \in {Min(Workers)} : Step(w)

SpecSeq == Init /\ [][SeqNext]_vars

\* Concurrent onboardings over the bots the admin adds: the claims of
\* claim_bot alone, with no release and no retirement.
ClaimNext ==
    \E w \in Workers :
        \/ AddBot(w)
        \/ StartClaimAgent(w)
        \/ ClaimCommit(w)
        \/ ClaimFinish(w)
        \/ Finish(w)

SpecClaim == Init /\ [][ClaimNext]_vars

\* The pool's operations and the onboarding called one after the other by
\* two callers: a call starts only when no other call is in flight, and a
\* caller keeps what its last call returned until it calls again.
Quiet(w) == \A v \in Workers \ {w} : wk[v].pc \in {"idle", "done"}

CallAddBot(w) == Quiet(w) /\ AddBot(w)

CallClaimAgent(w) == Quiet(w) /\ StartClaimAgent(w)

CallRelease(w) == Quiet(w) /\ StartRelease(w)

CallRetire(w) == Quiet(w) /\ StartRetire(w)

PoolSeqNext ==
    \E w \in Workers :
        \/ CallAddBot(w)
        \/ CallClaimAgent(w)
        \/ CallRelease(w)
        \/ CallRetire(w)
        \/ ClaimCommit(w)
        \/ ClaimFinish(w)
        \/ ReleaseCommit(w)
        \/ RetireCommit(w)
        \/ Finish(w)

SpecPoolSeq == Init /\ [][PoolSeqNext]_vars

\* The same calls, and claim_bot called by itself for an existing tenant.
CallClaimBot(w) == Quiet(w) /\ StartClaimBot(w)

PoolApiNext ==
    \E w \in Workers :
        \/ CallAddBot(w)
        \/ CallClaimAgent(w)
        \/ CallClaimBot(w)
        \/ CallRelease(w)
        \/ CallRetire(w)
        \/ ClaimCommit(w)
        \/ ClaimFinish(w)
        \/ ClaimBotCommit(w)
        \/ ReleaseCommit(w)
        \/ RetireCommit(w)
        \/ Finish(w)

SpecPoolApi == Init /\ [][PoolApiNext]_vars

\* The ledger's methods called directly, for any client id, beside the
\* handlers.
ApiAddCredits(w) ==
    /\ CanStart(w)
    /\ \E c \in ClientIds, amt \in 1..MaxGrant, ev \in StripeGrantEvents :
        wk' = [wk EXCEPT ![w] = Begin(w,
                [pc |-> "add_commit", op |-> "add_credits", client |-> c,
                 amount |-> amt, source |-> SourceLabel(ev),
                 snap |-> credit_accounts[c]])]
    /\ ops' = ops + 1
    /\ UNCHANGED <<dbSetup, dbTenant, dbLedger, dbPool>>

ApiDeductCredits(w) ==
    /\ CanStart(w)
    /\ \E c \in ClientIds, amt \in 1..MaxAmount :
        wk' = [wk EXCEPT ![w] =
                DeductCredits(w, Begin(w, [op |-> "deduct_credits",
                                           client |-> c]), c, amt)]
    /\ ops' = ops + 1
    /\ UNCHANGED <<dbSetup, dbTenant, dbLedger, dbPool>>

ApiExecute(w) ==
    /\ CanStart(w)
    /\ \E c \in clients, ch \in DispatchChannels : Execute(w, c, ch)

ApiNext ==
    \E w \in Workers :
        \/ Step(w)
        \/ ApiAddCredits(w)
        \/ ApiDeductCredits(w)
        \/ ApiExecute(w)

SpecApi == Init /\ [][ApiNext]_vars

\* ------------------------------------------------------------- messages
\* The texts fed to the router and to the setup orchestrator.
Messages ==
    {"connect my phone", "change my agent name", "setup",
     "how many credits", "help", "hello", "Have", "cancel", "STOP", "Exit",
     "connect my email"}

\* the texts fed to ConversationRouter.route: requests that name keywords
\* of two intents, keywords in capitals, a keyword inside a longer word,
\* and texts without keyword
RouterMessages ==
    {"help me configure", "please connect my calendar", "Add Credits",
     "how many credits?", "explain my plan", "What can you do?",
     "my address", "help me send a letter", "send a report", "BOOK a table"}

\* form_data.get("SpeechResult") or "Hello", webhooks.py:248
HELLO == "Hello"

AllTexts == Messages \cup RouterMessages \cup {HELLO}

\* str.lower() of every text, computed once
LowerOf == [text \in AllTexts |-> LowerFrom(text, 1)]

\* message.lower()
Lower(message) == LowerOf[message]

\* -------------------------------------------------------- intent router
SETUP_KEYWORDS ==
    {"connect", "add", "change", "configure", "set up", "link",
     "integrate", "setup", "install", "enable", "activate"}

ACCOUNT_KEYWORDS ==
    {"credits", "balance", "buy", "purchase", "payment", "subscription",
     "plan", "billing", "how many credits"}

HELP_KEYWORDS ==
    {"help", "what can you", "how do i", "how to", "?", "explain",
     "assist", "support"}

\* the trigger words of setup.py:132 and setup.py:134
VOIP_WORDS == {"phone", "voip", "call", "number"}
PERSONALITY_WORDS == {"personality", "name", "style", "character"}

\* the keywords of router.py:28-41 and setup.py:132-134 that are substrings
\* of a lowered text, computed once for every text
OccurringIn ==
    [text \in {LowerOf[m] : m \in AllTexts} |->
        {keyword \in SETUP_KEYWORDS \cup ACCOUNT_KEYWORDS \cup HELP_KEYWORDS
                        \cup VOIP_WORDS \cup PERSONALITY_WORDS :
            IsSubstring(keyword, text)}]

Occurring(message_lower) == OccurringIn[message_lower]

\* `keyword in message_lower`
Contains(message_lower, keyword) == keyword \in Occurring(message_lower)

\* Intent
SETUP == "setup"
TASK == "task"
ACCOUNT == "account"
HELP == "help"

\* the classification that looks for the help keywords first
ClassifyIntentHelpFirst(message) ==
    LET message_lower == Lower(message) IN
    IF \E keyword \in HELP_KEYWORDS : Contains(message_lower, keyword)
    THEN HELP
    ELSE IF \E keyword \in SETUP_KEYWORDS :
                Contains(message_lower, keyword)
    THEN SETUP
    ELSE IF \E keyword \in ACCOUNT_KEYWORDS :
                Contains(message_lower, keyword)
    THEN ACCOUNT
    ELSE TASK

\* ConversationRouter.classify_intent, router.py:49-69
ClassifyIntent(message) ==
    LET message_lower == Lower(message) IN
    IF \E keyword \in SETUP_KEYWORDS : Contains(message_lower, keyword)
    THEN SETUP
    ELSE IF \E keyword \in ACCOUNT_KEYWORDS :
                Contains(message_lower, keyword)
    THEN ACCOUNT
    ELSE IF \E keyword \in HELP_KEYWORDS : Contains(message_lower, keyword)
    THEN HELP
    ELSE TASK

\* the map that hands setup messages to the engine
HandlerMapAllEngine(intent) ==
    CASE intent = ACCOUNT -> "AccountManager"
      [] intent = HELP -> "HelpResponder"
      [] OTHER -> "AgentEngine"

\* router.py:87-92
HandlerMap(intent) ==
    CASE intent = SETUP -> "SetupOrchestrator"
      [] intent = TASK -> "AgentEngine"
      [] intent = ACCOUNT -> "AccountManager"
      [] intent = HELP -> "HelpResponder"

\* ConversationRouter.route
Route(message) == HandlerMap(ClassifyIntent(message))

\* ConversationRouter.route called with a client, a text and a channel: the
\* response carries the intent and the handler's name
ApiRoute(w) ==
    /\ CanStart(w)
    /\ \E c \in ClientIds, message \in RouterMessages,
          ch \in DispatchChannels :
        wk' = [wk EXCEPT ![w] = Begin(w,
                [pc |-> "done", op |-> "route", client |-> c,
                 channel |-> ch, msg |-> message,
                 intent |-> ClassifyIntent(message),
                 result |-> Route(message)])]
    /\ ops' = ops + 1
    /\ UNCHANGED <<dbSetup, dbTenant, dbLedger, dbPool>>

RouterNext == \E w \in Workers : ApiRoute(w) \/ Finish(w)

SpecRouter == Init /\ [][RouterNext]_vars

\* ------------------------------------------------------- setup sessions
MENU == "I can help you set up: phone (VoIP), email, calendar, or customize my personality. Which would you like?"
SORRY_FLOW == "Sorry, I don't know how to set up <flow_name> yet."
CANCELLED == "Setup cancelled. You can start again anytime by saying 'setup'."
UNKNOWN_FLOW == "Error: Unknown setup flow."
VOIP_ERROR == "Please reply 'have' if you have a number, or 'create' if you need one."
PERSONALITY_ERROR == "Please choose: formal, friendly, or brief"

\* SetupOrchestrator.flows, setup.py:90-98: the flows that have a class
Flows(flow_name) ==
    IF flow_name \in {"voip", "personality"} THEN flow_name ELSE "None"

\* VoIPSetupFlow.steps and PersonalitySetupFlow.steps
Steps(flow) ==
    IF flow = "voip"
    THEN <<"Do you have a VoIP number or should I create one for you? (reply: 'have' or 'create')",
           "What should I say when I answer calls?",
           "Great! I'll configure this now.">>
    ELSE <<"What's your agent's name?",
           "How should it communicate? (formal / friendly / brief)",
           "What's your business about? Describe it in a few words.",
           "Any specific instructions? (languages, things to avoid, etc.)">>

\* SetupFlow.get_step_message, setup.py:31-35
GetStepMessage(flow, step) ==
    IF step < Len(Steps(flow)) THEN Steps(flow)[step + 1]
    ELSE "Setup complete!"

\* the validator that accepts every input
ValidateAnything(flow, step, user_input) ==
    [is_valid |-> TRUE, error |-> "None"]

\* VoIPSetupFlow.validate and PersonalitySetupFlow.validate
Validate(flow, step, user_input) ==
    IF /\ flow = "voip"
       /\ step = 0
       /\ Lower(user_input) \notin {"have", "create"}
    THEN [is_valid |-> FALSE, error |-> VOIP_ERROR]
    ELSE IF /\ flow = "personality"
            /\ step = 1
            /\ Lower(user_input) \notin {"formal", "friendly", "brief"}
    THEN [is_valid |-> FALSE, error |-> PERSONALITY_ERROR]
    ELSE [is_valid |-> TRUE, error |-> "None"]

\* the detection that takes every message for a phone request
DetectFlowAlwaysVoip(message) == "voip"

\* SetupOrchestrator._detect_flow, setup.py:128-138
DetectFlow(message) ==
    LET message_lower == Lower(message) IN
    IF \E word \in VOIP_WORDS : Contains(message_lower, word)
    THEN "voip"
    ELSE IF \E word \in PERSONALITY_WORDS : Contains(message_lower, word)
    THEN "personality"
    ELSE "None"

\* the comparison without lower()
IsCancelExact(message) == message \in {"cancel", "stop", "exit"}

\* setup.py:171
IsCancel(message) == Lower(message) \in {"cancel", "stop", "exit"}

\* the session row as it would stand after the last prompt was answered
SetupSessionAnswered(c, flow_name) ==
    [client_id |-> c, flow_name |-> flow_name,
     current_step |-> Len(Steps(Flows(flow_name))),
     collected_data_json |-> None, completed_at |-> None]

\* SetupSession(client_id, flow_name, current_step=0, collected_data="{}"):
\* the model has no field collected_data, so the keyword is dropped and
\* collected_data_json keeps its default.
SetupSession(c, flow_name) ==
    [client_id |-> c, flow_name |-> flow_name, current_step |-> 0,
     collected_data_json |-> None, completed_at |-> None]

OpenSessions(sessions, c) ==
    {i \in 1..Len(sessions) : /\ sessions[i].client_id = c
                              /\ sessions[i].completed_at = None}

\* the selection without its filter on completed_at
GetActiveSessionAny(sessions, c) ==
    IF {i \in 1..Len(sessions) : sessions[i].client_id = c} = {} THEN None
    ELSE Min({i \in 1..Len(sessions) : sessions[i].client_id = c})

\* SetupOrchestrator._get_active_session, setup.py:118-125: first() of the
\* open sessions of the client, rows in rowid order
GetActiveSession(sessions, c) ==
    IF OpenSessions(sessions, c) = {} THEN None
    ELSE Min(OpenSessions(sessions, c))

\* where a request continues once its handler has returned `text`
Returned(rec, text) ==
    IF rec.op = "dispatch"
    THEN [pc |-> "replied", handled |-> text, reply |-> text]
    ELSE [pc |-> "done", handled |-> text]

\* SetupOrchestrator._start_flow, setup.py:143-153
StartFlow(rec, flow_name) ==
    IF Flows(flow_name) = "None"
    THEN With(rec, Returned(rec, SORRY_FLOW))
    ELSE With(rec, [pc |-> "start_commit", flow |-> flow_name])

\* SetupOrchestrator._continue_flow, setup.py:171-191.  The cancel words
\* are checked first, then the flow's validator runs.  After a valid input
\* line 191 reads setup_session.collected_data, an attribute SetupSession
\* does not have (its column is collected_data_json): AttributeError is
\* raised before anything was changed, and the call ends with it.
ContinueFlow(rec, sid, message) ==
    LET setup_session == setup_sessions[sid]
        flow == Flows(setup_session.flow_name)
        checked == Validate(flow, setup_session.current_step, message) IN
    IF IsCancel(message)
    THEN With(rec, [pc |-> "cancel_commit", sid |-> sid,
                    flow |-> setup_session.flow_name,
                    snap |-> setup_session])
    ELSE IF flow = "None"
    THEN With(With(rec, [sid |-> sid]), Returned(rec, UNKNOWN_FLOW))
    ELSE IF ~checked.is_valid
    THEN With(With(rec, [sid |-> sid, flow |-> flow, validated |-> TRUE,
                         snap |-> setup_session]),
              Returned(rec, checked.error))
    ELSE With(rec, [pc |-> IF rec.op = "dispatch" THEN "replied" ELSE "done",
                    sid |-> sid, flow |-> flow, validated |-> TRUE,
                    snap |-> setup_session, result |-> "AttributeError"])

\* SetupOrchestrator.handle, setup.py:104-115
Handle(rec, c, message) ==
    LET active_session == GetActiveSession(setup_sessions, c) IN
    IF active_session # None
    THEN ContinueFlow(rec, active_session, message)
    ELSE IF DetectFlow(message) # "None"
    THEN StartFlow(rec, DetectFlow(message))
    ELSE With(rec, Returned(rec, MENU))

\* SetupOrchestrator.handle called for a client with a message
StartHandle(w) ==
    /\ CanStart(w)
    /\ \E c \in ClientIds, message \in Messages :
        wk' = [wk EXCEPT ![w] =
                Handle(Begin(w, [op |-> "setup", client |-> c,
                                 msg |-> message]), c, message)]
    /\ ops' = ops + 1
    /\ UNCHANGED <<dbSetup, dbTenant, dbLedger, dbPool>>

\* setup.py:154-159: the session is inserted and the first prompt returned
SetupStartCommit(w) ==
    /\ wk[w].pc = "start_commit"
    /\ setup_sessions' = Append(setup_sessions,
                                SetupSession(wk[w].client, wk[w].flow))
    /\ wk' = Set(w, [sid |-> Len(setup_sessions) + 1]
                        @@ Returned(wk[w], GetStepMessage(wk[w].flow, 0)))
    /\ UNCHANGED <<dbTenant, dbLedger, dbPool, ops>>

\* setup.py:172-175; the request's ordinal stands for datetime.utcnow()
SetupCancelCommit(w) ==
    /\ wk[w].pc = "cancel_commit"
    /\ LET sid == wk[w].sid IN
        setup_sessions' = [setup_sessions EXCEPT ![sid] =
            Flush(setup_sessions[sid], wk[w].snap,
                  [wk[w].snap EXCEPT !.completed_at = wk[w].id])]
    /\ wk' = Set(w, Returned(wk[w], CANCELLED))
    /\ UNCHANGED <<dbTenant, dbLedger, dbPool, ops>>

\* The setup orchestrator called by concurrent requests.
SetupNext ==
    \E w \in Workers :
        \/ StartHandle(w)
        \/ SetupStartCommit(w)
        \/ SetupCancelCommit(w)
        \/ Finish(w)

SpecSetup == Init /\ [][SetupNext]_vars

\* The setup orchestrator called by one request after the other.
SetupSeqNext ==
    \E w \in {Min(Workers)} :
        \/ StartHandle(w)
        \/ SetupStartCommit(w)
        \/ SetupCancelCommit(w)
        \/ Finish(w)

SpecSetupSeq == Init /\ [][SetupSeqNext]_vars

\* ------------------------------------------------------ message dispatch
HELP_TEXT == "I can help with setup, tasks, and account questions. Ask me anything."
BALANCE_REPORT == "You currently have <balance> credits."

\* the texts that reach the dispatch: three setup requests, an account
\* question, a call for help and a task
DispatchMessages ==
    {"connect my phone", "change my agent name", "setup",
     "how many credits", "help", "hello"}

\* the channel types of _get_credit_cost and one it does not list
AllChannels == {"telegram", "email", "voip", "sms", "web_widget", "fax"}

\* CreditManager.get_balance, credit_manager.py:16-20
GetBalance(c) ==
    IF credit_accounts[c] = NoRow THEN 0 ELSE credit_accounts[c].balance

\* _dispatch_incoming_message, webhooks.py:86-109: the message is routed
\* first; the setup, account and help handlers answer without the engine.
Dispatch(rec, c, message, ch) ==
    LET handler == Route(message) IN
    IF handler = "SetupOrchestrator"
    THEN Handle(rec, c, message)
    ELSE IF handler = "AccountManager"
    THEN With(rec, [pc |-> "replied", reported |-> GetBalance(c),
                    reply |-> BALANCE_REPORT])
    ELSE IF handler = "HelpResponder"
    THEN With(rec, [pc |-> "replied", reply |-> HELP_TEXT])
    ELSE Engine(rec, c, ch)

\* _dispatch_incoming_message called for a client of the clients table,
\* with any message and channel type
ApiDispatch(w) ==
    /\ CanStart(w)
    /\ \E c \in clients, message \in DispatchMessages, ch \in AllChannels :
        wk' = [wk EXCEPT ![w] =
                Dispatch(Begin(w, [op |-> "dispatch", client |-> c,
                                   channel |-> ch, msg |-> message,
                                   intent |-> ClassifyIntent(message),
                                   pre |-> credit_accounts[c]]),
                         c, message, ch)]
    /\ ops' = ops + 1
    /\ UNCHANGED <<dbSetup, dbTenant, dbLedger, dbPool>>

RouteNext ==
    \E w \in Workers :
        \/ AddBot(w)
        \/ StartClaimAgent(w)
        \/ ClaimCommit(w)
        \/ ClaimFinish(w)
        \/ StartGrant(w)
        \/ AddCommit(w)
        \/ ApiDispatch(w)
        \/ SetupStartCommit(w)
        \/ DeductCommit(w)
        \/ RunOk(w)
        \/ RunFails(w)
        \/ RunCancelled(w)
        \/ RefundCommit(w)
        \/ AfterReply(w)
        \/ UsageCommit(w)
        \/ Finish(w)

SpecRoute == Init /\ [][RouteNext]_vars

\* ----------------------------------------------------- inbound webhooks
\* the number of the tenants' Twilio channels
TWILIO_NUMBER == "+15550001"

\* the To field of Twilio's form: the number as it is printed, the number
\* without its plus sign, and no number
ToNumbers == {" +1 (555) 0001", "15550001", Absent}

\* the text of an inbound event: a task, a setup request, an answer to a
\* setup step, and the cancel word
EventTexts == {"hello", "change my agent name", "Have", "cancel"}

\* "".join(ch for ch in value if ch.isdigit())
RECURSIVE DigitsOf(_)
DigitsOf(value) ==
    IF value = "" THEN ""
    ELSE (IF IsDigit(Char(value, 1)) THEN Char(value, 1) ELSE "")
            \o DigitsOf(SubSeq(value, 2, Len(value)))

\* _normalize_phone_number, webhooks.py:127-137
NormalizePhoneNumber(number) ==
    IF ~Truthy(number) THEN Absent
    ELSE LET value == Strip(number) IN
         IF value = "" THEN Absent
         ELSE IF Char(value, 1) = "+" THEN "+" \o DigitsOf(value)
         ELSE DigitsOf(value)

NormalizedOf ==
    [number \in ToNumbers \cup {TWILIO_NUMBER} |->
        NormalizePhoneNumber(number)]

\* Channel(type=..., twilio_number=..., active=True), models.py:132-145
TwilioChannel(c, ty) ==
    [client_id |-> c, type |-> ty, twilio_number |-> TWILIO_NUMBER,
     active |-> TRUE]

\* the lookup that also answers for a client's inactive channel
GetTelegramChannelAnyActive(c) == channels[c]

\* _get_telegram_channel, webhooks.py:69-76: the client's Telegram channel
\* with active = true, or None
GetTelegramChannel(c) ==
    IF channels[c] # None /\ channel_active[c] THEN channels[c] ELSE None

\* _find_twilio_channel_by_number, webhooks.py:140-156: the first of the
\* active rows with a number whose normalized number is the normalized To
FindTwilioChannelByNumber(to_number) ==
    LET normalized == NormalizedOf[to_number]
        matching == {i \in 1..Len(twilio_channels) :
                        /\ twilio_channels[i].active
                        /\ NormalizedOf[twilio_channels[i].twilio_number]
                                = normalized} IN
    IF normalized = Absent \/ matching = {} THEN None ELSE Min(matching)

\* An operator inserts a Twilio channel for a client; no handler of the
\* application writes such a row.
AddTwilioChannel ==
    /\ Len(twilio_channels) < MaxTwilioChannels
    /\ \E c \in clients, ty \in {"sms", "voip"} :
        twilio_channels' = Append(twilio_channels, TwilioChannel(c, ty))
    /\ UNCHANGED <<clients, agent_configs, channels, channel_active,
                   dbSetup, dbLedger, dbPool, wk, ops>>

\* An operator switches column active of a Telegram channel.
SetTelegramActive ==
    /\ \E c \in Onboarded :
        channel_active' = [channel_active EXCEPT ![c] = ~channel_active[c]]
    /\ UNCHANGED <<clients, agent_configs, channels, twilio_channels,
                   dbSetup, dbLedger, dbPool, wk, ops>>

\* An operator switches column active of a Twilio channel.
SetTwilioActive ==
    /\ \E i \in 1..Len(twilio_channels) :
        twilio_channels' = [twilio_channels EXCEPT ![i].active =
                                ~twilio_channels[i].active]
    /\ UNCHANGED <<clients, agent_configs, channels, channel_active,
                   dbSetup, dbLedger, dbPool, wk, ops>>

\* the call of _dispatch_incoming_message by a webhook
DispatchIncomingMessage(rec, c, text, ch) ==
    Dispatch(With(rec, [op |-> "dispatch", client |-> c, channel |-> ch,
                        msg |-> text, intent |-> ClassifyIntent(text),
                        pre |-> credit_accounts[c]]),
             c, text, ch)

\* telegram_webhook up to the dispatch, webhooks.py:187-201
TelegramEvent(w) ==
    /\ CanStart(w)
    /\ \E c \in ClientIds, text \in EventTexts \cup {Absent} :
        LET rec == Begin(w, [op |-> "telegram_webhook", hook |-> "telegram",
                             client |-> c, msg |-> text]) IN
        wk' = [wk EXCEPT ![w] =
            IF text = Absent
            THEN With(rec, [pc |-> "done",
                            result |-> "No text message in update"])
            ELSE IF GetTelegramChannel(c) = None
            THEN With(rec, [pc |-> "done",
                    result |-> "No active Telegram channel configured"])
            ELSE DispatchIncomingMessage(rec, c, text, "telegram")]
    /\ ops' = ops + 1
    /\ UNCHANGED <<dbSetup, dbTenant, dbLedger, dbPool>>

\* sms_webhook up to the dispatch, webhooks.py:289-308
SmsEvent(w) ==
    /\ CanStart(w)
    /\ \E to_number \in ToNumbers, inbound_text \in EventTexts \cup {Absent} :
        LET rec == Begin(w, [op |-> "sms_webhook", hook |-> "sms",
                             to |-> to_number, msg |-> inbound_text])
            channel == FindTwilioChannelByNumber(to_number) IN
        wk' = [wk EXCEPT ![w] =
            IF channel = None
            THEN With(rec, [pc |-> "done",
                            result |-> "No matching Twilio channel"])
            ELSE IF ~Truthy(inbound_text)
            THEN With(rec, [pc |-> "done", result |-> "No SMS body"])
            ELSE DispatchIncomingMessage(rec,
                    twilio_channels[channel].client_id, inbound_text,
                    "sms")]
    /\ ops' = ops + 1
    /\ UNCHANGED <<dbSetup, dbTenant, dbLedger, dbPool>>

NUMBER_NOT_CONFIGURED == "This number is not configured yet."

\* voice_webhook up to the dispatch, webhooks.py:234-256
VoiceEvent(w) ==
    /\ CanStart(w)
    /\ \E to_number \in ToNumbers, speech \in {"change my agent name", Absent} :
        LET rec == Begin(w, [op |-> "voice_webhook", hook |-> "voice",
                             to |-> to_number, msg |-> speech])
            channel == FindTwilioChannelByNumber(to_number) IN
        wk' = [wk EXCEPT ![w] =
            IF channel = None
            THEN With(rec, [pc |-> "done", result |-> "twiml",
                            handled |-> NUMBER_NOT_CONFIGURED])
            ELSE DispatchIncomingMessage(rec,
                    twilio_channels[channel].client_id, Or(speech, HELLO),
                    "voip")]
    /\ ops' = ops + 1
    /\ UNCHANGED <<dbSetup, dbTenant, dbLedger, dbPool>>

\* inbound events for tenants that are being onboarded, while operators
\* configure the channels
WebhookNext ==
    \/ AddTwilioChannel
    \/ SetTelegramActive
    \/ SetTwilioActive
    \/ \E w \in Workers :
        \/ AddBot(w)
        \/ StartClaimAgent(w)
        \/ ClaimCommit(w)
        \/ ClaimFinish(w)
        \/ TelegramEvent(w)
        \/ SmsEvent(w)
        \/ VoiceEvent(w)
        \/ SetupStartCommit(w)
        \/ DeductCommit(w)
        \/ RunOk(w)
        \/ RunFails(w)
        \/ RunCancelled(w)
        \/ RefundCommit(w)
        \/ AfterReply(w)
        \/ Finish(w)

SpecWebhook == Init /\ [][WebhookNext]_vars

\* ------------------------------------------------------------ claims
Account(c) == credit_accounts[c]

HasAccount(c) == credit_accounts[c] # NoRow

\* execute has returned its reply, or was ended by the cancellation
DispatchEnded(w) ==
    /\ wk[w].op = "dispatch"
    /\ \/ wk[w].pc = "replied"
       \/ wk[w].outcome = "cancelled"

DispatchFailed(w) == wk[w].deducted /\ wk[w].outcome # "ok"

\* C1: in every committed state every credit account has
\* balance = total_purchased - total_used.
LedgerInvariant ==
    \A c \in ClientIds :
        HasAccount(c) =>
            Account(c).balance =
                Account(c).total_purchased - Account(c).total_used

\* C2: in every committed state the amounts of a tenant's transactions add
\* up to the balance of its credit account.
ReconciliationInvariant ==
    \A c \in ClientIds :
        HasAccount(c) => SumAmounts(TxnsOf(c)) = Account(c).balance

\* C3: a dispatch that deducted and then failed has appended exactly one
\* DEDUCT and exactly one REFUND of the same amount; a dispatch whose deduct
\* failed has appended no transaction.
AtMostOneRefund ==
    \A w \in Workers :
        DispatchEnded(w) =>
            /\ DispatchFailed(w) =>
                /\ TxnsByType(wk[w].id, REFUND) =
                      <<Transaction(wk[w].client, wk[w].amount, REFUND,
                                    wk[w].id)>>
                /\ TxnsByType(wk[w].id, DEDUCT) =
                      <<Transaction(wk[w].client, -wk[w].amount, DEDUCT,
                                    wk[w].id)>>
            /\ ~wk[w].deducted => TxnsBy(wk[w].id) = <<>>

\* C4: with nothing else running, a dispatch whose inference failed leaves
\* balance and total_used as they were and replies with the apology, and
\* the balance is lower than before the dispatch only if the inference
\* result was returned.
NoChargeWithoutResult ==
    \A w \in Workers :
        (DispatchEnded(w) /\ wk[w].pre # NoRow) =>
            /\ (wk[w].pc = "replied" /\ DispatchFailed(w)) =>
                /\ Account(wk[w].client).balance = wk[w].pre.balance
                /\ Account(wk[w].client).total_used = wk[w].pre.total_used
                /\ wk[w].reply = APOLOGY
            /\ Account(wk[w].client).balance < wk[w].pre.balance =>
                wk[w].reply = RESPONSE

\* C5: when a dispatch ends, the refund step has run iff the deduct
\* succeeded and the dispatch did not complete successfully.
RefundRan(w) == Len(TxnsByType(wk[w].id, REFUND)) > 0

GuaranteedRefund ==
    \A w \in Workers :
        DispatchEnded(w) => (RefundRan(w) <=> DispatchFailed(w))

\* C6: the balance of an account is its initial balance plus the amounts of
\* all transactions appended for the tenant, and the credits deducted never
\* exceed the credits that were granted or refunded.
Spent(c) ==
    -SumAmounts(SelectSeq(TxnsOf(c), LAMBDA t : t.type = DEDUCT))

Received(c) ==
    SumAmounts(SelectSeq(TxnsOf(c), LAMBDA t : t.type # DEDUCT))

NoLostUpdates ==
    \A c \in ClientIds :
        HasAccount(c) =>
            /\ Account(c).balance = STARTER_CREDITS + SumAmounts(TxnsOf(c))
            /\ Spent(c) <= STARTER_CREDITS + Received(c)

\* C7: no bot is handed out by claim_bot to two different tenants, and no
\* more claims succeed than there are bots in the pool.
Holders(b) ==
    {wk[w].client : w \in {v \in Workers : /\ wk[v].op = "claim_agent"
                                            /\ wk[v].outcome = "claimed"
                                            /\ wk[v].bot = b}}
        \cup {c \in ClientIds : channels[c] = b}

PoolExclusivity ==
    /\ \A b \in BotIds : Cardinality(Holders(b)) <= 1
    /\ Cardinality(UNION {Holders(b) : b \in BotIds})
          <= Cardinality({b \in BotIds : bot_pool[b] # NoRow})

\* C8: every pooled bot has an owner iff its status is assigned.
PoolRecordInvariant ==
    \A b \in BotIds :
        bot_pool[b] # NoRow =>
            (bot_pool[b].assigned_to_client_id # None
                <=> bot_pool[b].status = ASSIGNED)

\* an assigned bot was retired, and another bot is assigned
PoolRecordWitness ==
    \E w \in Workers :
        /\ wk[w].op = "retire_bot"
        /\ wk[w].pc = "done"
        /\ wk[w].snap # NoRow
        /\ wk[w].snap.status = ASSIGNED
        /\ bot_pool[wk[w].bot] = BotRow(RETIRED, None)

\* C9: a deduct that finds no account, or a balance below the amount,
\* returns false, never reaches its commit and appends no transaction.
Lacks(c, amount) ==
    credit_accounts[c] = NoRow \/ credit_accounts[c].balance < amount

DeductReturnedFalse(w) ==
    \/ wk[w].op = "dispatch" /\ wk[w].pc = "replied"
          /\ wk[w].reply = OUT_OF_CREDITS
    \/ wk[w].op = "deduct_credits" /\ wk[w].pc = "done"
          /\ wk[w].result = "False"

DeductFailsClosedStep ==
    \A w \in Workers :
        LET r == wk'[w] IN
        /\ ( /\ wk[w].pc = "idle"
             /\ r.op = "dispatch"
             /\ r.client \in agent_configs
             /\ Lacks(r.client, CreditCost(r.channel)) )
           => /\ r.pc = "replied"
              /\ r.reply = OUT_OF_CREDITS
              /\ ~r.deducted
              /\ UNCHANGED dbLedger
        /\ ( /\ wk[w].pc \in {"idle", "replied"}
             /\ wk[w].usage = 0
             /\ r.usage > 0
             /\ Lacks(r.client, r.usage) )
           => /\ r.pc = "done"
              /\ r.result = "False"
              /\ UNCHANGED dbLedger

DeductFailsClosed ==
    /\ [](\A w \in Workers : DeductReturnedFalse(w) => TxnsBy(wk[w].id) = <<>>)
    /\ [][DeductFailsClosedStep]_vars

\* execute was refused for a balance below the cost while deduct_credits
\* was refused for a client without account
DeductFailsClosedWitness ==
    \E w, v \in Workers :
        /\ wk[w].op = "dispatch"
        /\ wk[w].pc = "replied"
        /\ wk[w].reply = OUT_OF_CREDITS
        /\ HasAccount(wk[w].client)
        /\ Account(wk[w].client).balance < wk[w].amount
        /\ wk[v].op = "deduct_credits"
        /\ wk[v].result = "False"
        /\ ~HasAccount(wk[v].client)

\* C10: the commit of a successful deduct lowers the balance by the amount,
\* raises total_used by the amount and appends exactly one DEDUCT
\* transaction of -amount, all in that one commit.
DeductCommits(w) ==
    /\ wk[w].pc \in {"deduct_commit", "usage_commit"}
    /\ wk'[w].pc # wk[w].pc

DeductAtomicStep ==
    \A w \in Workers :
        DeductCommits(w) =>
            LET c == wk[w].client
                amt == IF wk[w].pc = "deduct_commit" THEN wk[w].amount
                       ELSE wk[w].usage IN
            /\ credit_accounts'[c].balance = credit_accounts[c].balance - amt
            /\ credit_accounts'[c].total_used =
                  credit_accounts[c].total_used + amt
            /\ credit_transactions' = Append(credit_transactions,
                  Transaction(c, -amt, DEDUCT, wk[w].id))

DeductAtomicUnit == [][DeductAtomicStep]_vars

\* C11: in every reachable state every credit account has balance >= 0,
\* total_purchased >= 0 and total_used >= 0, and so a balance that does not
\* exceed total_purchased.
NonNegativity ==
    \A c \in ClientIds :
        HasAccount(c) =>
            /\ Account(c).balance >= 0
            /\ Account(c).total_purchased >= 0
            /\ Account(c).total_used >= 0
            /\ Account(c).balance <= Account(c).total_purchased

\* a dispatch has been routed and has returned to its caller, which has
\* not yet gone on
Dispatched(w) ==
    /\ wk[w].op = "dispatch"
    /\ wk[w].intent # "none"
    /\ wk[w].pc = "replied"

\* the step in which worker w takes a message for the dispatch
DispatchStarts(w) ==
    /\ wk[w].pc = "idle"
    /\ wk'[w].op = "dispatch"
    /\ wk'[w].intent # "none"

\* C12 as stated: for a tenant with no AgentConfig the dispatch of any
\* message, whatever its intent, returns the configuration-error message
\* and leaves the credit account, the transaction log and the setup
\* sessions unchanged.
MissingConfigurationStepAnyIntent ==
    \A w \in Workers :
        (DispatchStarts(w) /\ wk'[w].client \notin agent_configs) =>
            /\ wk'[w].pc = "replied"
            /\ wk'[w].reply = NOT_CONFIGURED
            /\ UNCHANGED <<dbLedger, dbSetup>>

MissingConfigurationAnyIntent == [][MissingConfigurationStepAnyIntent]_vars

\* C12 as amended: for a tenant with no AgentConfig the dispatch of a
\* message classified as Task returns the configuration-error message and
\* leaves the credit account, the transaction log and the setup sessions
\* unchanged; the intent is classified before the configuration is
\* resolved, so a Setup, Account or Help message is answered by its handler
\* and never with the configuration-error message.
MissingConfigurationStep ==
    \A w \in Workers :
        (DispatchStarts(w) /\ wk'[w].client \notin agent_configs) =>
            IF wk'[w].intent = TASK
            THEN /\ wk'[w].pc = "replied"
                 /\ wk'[w].reply = NOT_CONFIGURED
                 /\ ~wk'[w].deducted
                 /\ UNCHANGED <<dbLedger, dbSetup>>
            ELSE wk'[w].reply # NOT_CONFIGURED

MissingConfiguration ==
    /\ [](\A w \in Workers :
            (Dispatched(w) /\ wk[w].reply = NOT_CONFIGURED) =>
                /\ wk[w].intent = TASK
                /\ TxnsBy(wk[w].id) = <<>>
                /\ wk[w].sid = None)
    /\ [][MissingConfigurationStep]_vars

\* a task message of a client without configuration was answered with the
\* configuration error
MissingConfigurationWitness ==
    \E w \in Workers :
        /\ Dispatched(w)
        /\ wk[w].intent = TASK
        /\ wk[w].client \notin agent_configs
        /\ wk[w].reply = NOT_CONFIGURED

NonCosted == {SETUP, ACCOUNT, HELP}

\* a step of a dispatch that was routed to the setup, account or help
\* handler
NonCostedStep(w) ==
    /\ wk'[w] # wk[w]
    /\ wk'[w].op = "dispatch"
    /\ wk'[w].intent \in NonCosted
    /\ wk[w].pc \in {"idle", "start_commit"}

\* C13: a dispatch routed to the Setup, Account or Help handler appends no
\* credit transaction and leaves balance, total_purchased and total_used
\* unchanged; the Setup path returns exactly what SetupOrchestrator.handle
\* returned and the Account path reports the balance of the account as it
\* is when the dispatch reads it.
NonCostedPathsStep ==
    \A w \in Workers :
        NonCostedStep(w) =>
            /\ UNCHANGED dbLedger
            /\ (wk[w].pc = "idle" /\ wk'[w].intent = ACCOUNT) =>
                /\ wk'[w].pc = "replied"
                /\ wk'[w].reply = BALANCE_REPORT
                /\ wk'[w].reported =
                      IF HasAccount(wk'[w].client)
                      THEN Account(wk'[w].client).balance ELSE 0

NonCostedPaths ==
    /\ [](\A w \in Workers :
            (Dispatched(w) /\ wk[w].intent \in NonCosted) =>
                /\ TxnsBy(wk[w].id) = <<>>
                /\ ~wk[w].deducted
                /\ wk[w].outcome = "none"
                /\ wk[w].intent = SETUP => wk[w].reply = wk[w].handled
                /\ wk[w].intent = HELP => wk[w].reply = HELP_TEXT)
    /\ [][NonCostedPathsStep]_vars

\* a setup request was answered with the first prompt of the voip flow
\* while an account question of a tenant with credits was answered
NonCostedPathsWitness ==
    \E w, v \in Workers :
        /\ Dispatched(w)
        /\ wk[w].intent = SETUP
        /\ HasAccount(wk[w].client)
        /\ wk[w].reply = GetStepMessage("voip", 0)
        /\ Dispatched(v)
        /\ wk[v].intent = ACCOUNT
        /\ wk[v].reported = STARTER_CREDITS

\* the step in which a task dispatch finds the account unable to pay
DeductRefused(w) ==
    /\ DispatchStarts(w)
    /\ wk'[w].intent = TASK
    /\ wk'[w].client \in agent_configs
    /\ Lacks(wk'[w].client,
             CASE wk'[w].channel \in {"email", "voip"} -> 2 [] OTHER -> 1)

\* C14: in a Task dispatch whose deduct of the channel's cost fails, the
\* out-of-credits message is returned at once, the inference adapter is
\* never invoked in that dispatch, and no state is changed.
OutOfCreditsStep ==
    \A w \in Workers :
        DeductRefused(w) =>
            /\ wk'[w].pc = "replied"
            /\ wk'[w].reply = OUT_OF_CREDITS
            /\ UNCHANGED <<dbLedger, dbSetup, dbTenant, dbPool>>

OutOfCredits ==
    /\ [](\A w \in Workers :
            (wk[w].op = "dispatch" /\ wk[w].reply = OUT_OF_CREDITS) =>
                /\ wk[w].outcome = "none"
                /\ ~wk[w].deducted
                /\ wk[w].pc \in {"replied", "usage_commit", "done"})
    /\ [][OutOfCreditsStep]_vars

\* a voice message, which costs two credits, was refused for a tenant whose
\* balance is one credit
OutOfCreditsWitness ==
    \E w \in Workers :
        /\ Dispatched(w)
        /\ wk[w].intent = TASK
        /\ wk[w].channel = "voip"
        /\ wk[w].reply = OUT_OF_CREDITS
        /\ HasAccount(wk[w].client)
        /\ Account(wk[w].client).balance = 1

\* the cost table of the claim
TableCost(channel_type) ==
    CASE channel_type \in {"telegram", "sms", "web_widget"} -> 1
      [] channel_type \in {"email", "voip"} -> 2
      [] OTHER -> 1

\* C15: when the deduct succeeds and the inference call and the memory save
\* succeed, the dispatch returns the inference result verbatim and has
\* appended exactly one DEDUCT of the channel's cost (telegram 1, sms 1,
\* web_widget 1, email 2, voip 2, any other channel 1) and no REFUND.
TaskSuccess ==
    \A w \in Workers :
        (Dispatched(w) /\ wk[w].deducted /\ wk[w].outcome = "ok") =>
            /\ wk[w].intent = TASK
            /\ wk[w].reply = RESPONSE
            /\ TxnsBy(wk[w].id) =
                  <<Transaction(wk[w].client, -TableCost(wk[w].channel),
                                DEDUCT, wk[w].id)>>

\* an email task, which costs two credits, was answered by the runtime
\* after a grant had raised the balance to two
TaskSuccessWitness ==
    \E w \in Workers :
        /\ Dispatched(w)
        /\ wk[w].outcome = "ok"
        /\ wk[w].channel = "email"
        /\ wk[w].reply = RESPONSE
        /\ Account(wk[w].client).balance = 0

\* C16: every tenant has at most one setup session with completed_at = null,
\* also when two SetupOrchestrator.handle calls of the tenant run
\* concurrently.
OneOpenSession ==
    \A c \in ClientIds : Cardinality(OpenSessions(setup_sessions, c)) <= 1

\* the spellings of the cancel words among the messages
CancelInputs == {"cancel", "STOP", "Exit"}

\* handle has returned (or raised) for a message that found an open session
Continued(w) ==
    /\ wk[w].op = "setup"
    /\ wk[w].pc = "done"
    /\ wk[w].snap # NoRow

\* the step in which handle selects the active session of the client
HandleStarts(w) == wk[w].pc = "idle" /\ wk'[w].op = "setup"

\* C17: for a tenant with an open session, "cancel", "stop" or "exit" in any
\* case marks that session completed and returns the cancellation message
\* without running the flow's validator; the tenant is left without open
\* session, a later message never selects a completed session, and a
\* session that is started is at step 0 with no answers.
SetupCancelStep ==
    \A w \in Workers :
        /\ (HandleStarts(w) /\ wk'[w].sid # None) =>
                setup_sessions[wk'[w].sid].completed_at = None
        /\ wk[w].pc = "start_commit" /\ wk'[w].pc # "start_commit" =>
                /\ Len(setup_sessions') = Len(setup_sessions) + 1
                /\ setup_sessions'[Len(setup_sessions')].current_step = 0
                /\ setup_sessions'[Len(setup_sessions')].collected_data_json
                      = None
                /\ setup_sessions'[Len(setup_sessions')].completed_at = None

SetupCancel ==
    /\ [](\A w \in Workers :
            (Continued(w) /\ wk[w].msg \in CancelInputs) =>
                /\ setup_sessions[wk[w].sid].completed_at # None
                /\ wk[w].handled = CANCELLED
                /\ ~wk[w].validated
                /\ wk[w].result = "none"
                /\ OpenSessions(setup_sessions, wk[w].client) = {})
    /\ [][SetupCancelStep]_vars

\* the second session of a tenant was cancelled after its first session had
\* been cancelled
SetupCancelWitness ==
    \E w \in Workers :
        /\ Continued(w)
        /\ wk[w].msg = "STOP"
        /\ wk[w].sid = 2
        /\ wk[w].handled = CANCELLED
        /\ setup_sessions[1].client_id = wk[w].client
        /\ setup_sessions[1].completed_at # None
        /\ setup_sessions[1].flow_name # setup_sessions[2].flow_name

\* the inputs the claim calls invalid: anything but have or create at step 0
\* of voip, anything but formal, friendly or brief at step 1 of personality
Rejected(flow, step, message) ==
    \/ flow = "voip" /\ step = 0
          /\ message \notin {"Have", "have", "create"}
    \/ flow = "personality" /\ step = 1
          /\ message \notin {"formal", "friendly", "brief"}

ValidatorError(flow) ==
    IF flow = "voip"
    THEN "Please reply 'have' if you have a number, or 'create' if you need one."
    ELSE "Please choose: formal, friendly, or brief"

\* C18: when the step's validator rejects the input, handle returns the
\* validator's error message and the session keeps its current_step, its
\* answers and stays open.
InvalidSetupInputStep ==
    \A w \in Workers :
        ( /\ HandleStarts(w)
          /\ wk'[w].sid # None
          /\ wk'[w].msg \notin CancelInputs
          /\ Rejected(setup_sessions[wk'[w].sid].flow_name,
                      setup_sessions[wk'[w].sid].current_step, wk'[w].msg) )
        => /\ wk'[w].pc = "done"
           /\ wk'[w].handled =
                 ValidatorError(setup_sessions[wk'[w].sid].flow_name)
           /\ wk'[w].result = "none"
           /\ UNCHANGED dbSetup

InvalidSetupInput == [][InvalidSetupInputStep]_vars

\* "hello" was rejected at step 0 of a voip session, which is still open at
\* step 0
InvalidSetupInputWitness ==
    \E w \in Workers :
        /\ Continued(w)
        /\ wk[w].msg = "hello"
        /\ wk[w].handled = VOIP_ERROR
        /\ setup_sessions[wk[w].sid].flow_name = "voip"
        /\ setup_sessions[wk[w].sid].current_step = 0
        /\ setup_sessions[wk[w].sid].completed_at = None

\* handle has returned (or raised) for a valid input that is no cancel word
Answered(w) ==
    /\ Continued(w)
    /\ wk[w].msg \notin CancelInputs
    /\ ~Rejected(wk[w].snap.flow_name, wk[w].snap.current_step, wk[w].msg)

\* C19: for an open session at step i, a valid input that is no cancel word
\* is stored in the persisted session as the answer of step i, and
\* current_step becomes i + 1.
ValidSetupInput ==
    \A w \in Workers :
        Answered(w) =>
            /\ setup_sessions[wk[w].sid].current_step =
                  wk[w].snap.current_step + 1
            /\ setup_sessions[wk[w].sid].collected_data_json # None

\* flow.execute(collected_data)["message"], setup.py:54-59 and 79-84 (the
\* answers are keyed step_0, step_1, ...: there is no key "name")
ExecuteMessage(flow) ==
    IF flow = "voip"
    THEN "VoIP configured! Your number will be ready in a few minutes."
    ELSE "Your agent 'None' is ready!"

\* C20: when a valid input advances current_step to the flow's step count,
\* the flow's execute is invoked with the collected answers, the session is
\* marked completed and execute's result message is returned; when the
\* advanced step is below the step count, the session stays open and the
\* next step's prompt is returned.
SetupCompletion ==
    \A w \in Workers :
        Answered(w) =>
            LET flow == wk[w].snap.flow_name
                advanced == wk[w].snap.current_step + 1 IN
            IF advanced >= Len(Steps(flow))
            THEN /\ setup_sessions[wk[w].sid].completed_at # None
                 /\ wk[w].handled = ExecuteMessage(flow)
            ELSE /\ setup_sessions[wk[w].sid].completed_at = None
                 /\ wk[w].handled = GetStepMessage(flow, advanced)

\* the flow a message asks for, as a reader takes it
NamedFlow(message) ==
    CASE message = "connect my phone" -> "voip"
      [] message = "change my agent name" -> "personality"
      [] message = "connect my email" -> "email"
      [] OTHER -> "no flow"

FirstPrompt(flow_name) ==
    IF flow_name = "voip"
    THEN "Do you have a VoIP number or should I create one for you? (reply: 'have' or 'create')"
    ELSE "What's your agent's name?"

\* C21: handle goes on to create a session only when it found the tenant
\* without open session; when the message names no known flow, or a flow
\* with no implementation, handle returns a message and creates no session;
\* when it names voip or personality, exactly one session is inserted, at
\* step 0 with no answers, and the flow's first prompt is returned.
SetupStartStep ==
    /\ \A w \in Workers :
        LET c == wk'[w].client
            named == NamedFlow(wk'[w].msg) IN
        /\ HandleStarts(w) =>
            /\ wk'[w].pc = "start_commit" =>
                    /\ OpenSessions(setup_sessions, c) = {}
                    /\ named \in {"voip", "personality"}
            /\ OpenSessions(setup_sessions, c) = {} =>
                    IF named \in {"voip", "personality"}
                    THEN /\ wk'[w].pc = "start_commit"
                         /\ wk'[w].flow = named
                         /\ UNCHANGED dbSetup
                    ELSE /\ wk'[w].pc = "done"
                         /\ wk'[w].handled = MENU
                         /\ wk'[w].result = "none"
                         /\ UNCHANGED dbSetup
        /\ (wk[w].pc = "start_commit" /\ wk'[w] # wk[w]) =>
            /\ setup_sessions' = Append(setup_sessions,
                    [client_id |-> wk[w].client,
                     flow_name |-> NamedFlow(wk[w].msg),
                     current_step |-> 0, collected_data_json |-> None,
                     completed_at |-> None])
            /\ wk'[w].pc = "done"
            /\ wk'[w].handled = FirstPrompt(NamedFlow(wk[w].msg))
    /\ Len(setup_sessions') # Len(setup_sessions) =>
            \E w \in Workers : /\ wk[w].pc = "start_commit"
                                /\ wk[w].op = "setup"
                                /\ wk'[w].pc = "done"

SetupStart == [][SetupStartStep]_vars

\* a request for the email flow was answered with the menu and left no
\* session, while a request to change the agent's name has started the
\* personality flow
SetupStartWitness ==
    \E w, v \in Workers :
        /\ wk[w].op = "setup" /\ wk[w].pc = "done"
        /\ wk[w].msg = "connect my email"
        /\ wk[w].handled = MENU
        /\ wk[v].op = "setup" /\ wk[v].pc = "done"
        /\ wk[v].msg = "change my agent name"
        /\ wk[v].handled = "What's your agent's name?"
        /\ Len(setup_sessions) = 1
        /\ setup_sessions[1] =
              [client_id |-> wk[v].client, flow_name |-> "personality",
               current_step |-> 0, collected_data_json |-> None,
               completed_at |-> None]

IsCompleted(sid) == setup_sessions[sid].completed_at # None

\* C22: once a setup session has completed_at set, no later step clears
\* completed_at or changes its current_step or its answers, no handle call
\* selects it as the active session, and no session is ever deleted.
NeverReopenedStep ==
    /\ Len(setup_sessions') >= Len(setup_sessions)
    /\ \A sid \in 1..Len(setup_sessions) :
        IsCompleted(sid) =>
            /\ setup_sessions'[sid].completed_at # None
            /\ setup_sessions'[sid].current_step =
                  setup_sessions[sid].current_step
            /\ setup_sessions'[sid].collected_data_json =
                  setup_sessions[sid].collected_data_json
            /\ setup_sessions'[sid].flow_name = setup_sessions[sid].flow_name
            /\ setup_sessions'[sid].client_id = setup_sessions[sid].client_id
    /\ \A w \in Workers :
        (HandleStarts(w) /\ wk'[w].sid # None) => ~IsCompleted(wk'[w].sid)

NeverReopened == [][NeverReopenedStep]_vars

\* after the first session of a tenant was cancelled, a later request of
\* the tenant has started a second session and the first one is as the
\* cancellation left it
NeverReopenedWitness ==
    \E w \in Workers :
        /\ wk[w].op = "setup" /\ wk[w].pc = "done"
        /\ wk[w].sid = 2
        /\ wk[w].handled = FirstPrompt(setup_sessions[2].flow_name)
        /\ setup_sessions[1].client_id = wk[w].client
        /\ setup_sessions[1].completed_at # None
        /\ setup_sessions[1].completed_at < wk[w].id
        /\ setup_sessions[1].current_step = 0
        /\ setup_sessions[2].completed_at = None

IsAvailable(b) == bot_pool[b] # NoRow /\ bot_pool[b].status = "available"

NoneAvailable == \A b \in BotIds : ~IsAvailable(b)

EXHAUSTED == "BotPoolExhaustedException"

\* the step in which an onboarding calls claim_bot
ClaimStarts(w) == wk[w].pc = "idle" /\ wk'[w].op = "claim_agent"

\* C23: claim_bot called when no bot has status available raises
\* BotPoolExhaustedException, hands out no bot and changes no pool record;
\* it raises that exception in no other case.
EmptyPoolClaimStep ==
    \A w \in Workers :
        ClaimStarts(w) =>
            /\ NoneAvailable =>
                /\ wk'[w].outcome = EXHAUSTED
                /\ wk'[w].bot = None
                /\ wk'[w].pc = "done"
                /\ bot_pool' = bot_pool
            /\ wk'[w].outcome = EXHAUSTED => NoneAvailable

EmptyPoolClaim ==
    /\ [](\A w \in Workers :
            wk[w].outcome = EXHAUSTED =>
                /\ wk[w].op = "claim_agent"
                /\ wk[w].bot = None
                /\ wk[w].pc = "done")
    /\ [][EmptyPoolClaimStep]_vars

\* the only bot of the pool is assigned to the first tenant, and the claim
\* of a second tenant was refused and left that record as it was
EmptyPoolClaimWitness ==
    \E w \in Workers :
        /\ wk[w].outcome = EXHAUSTED
        /\ wk[w].client = 2
        /\ bot_pool[1] = BotRow(ASSIGNED, 1)
        /\ bot_pool[2] = NoRow

\* C24: claim_bot takes the available bot that was created first, sets it
\* to assigned with the calling tenant as owner, and changes no other pool
\* record.
ClaimOrderStep ==
    \A w \in Workers :
        /\ (ClaimStarts(w) /\ ~NoneAvailable) =>
            /\ wk'[w].pc = "claim_commit"
            /\ IsAvailable(wk'[w].bot)
            /\ \A a \in BotIds : a < wk'[w].bot => ~IsAvailable(a)
        /\ (wk[w].pc = "claim_commit" /\ wk'[w] # wk[w]) =>
            /\ wk'[w].bot = wk[w].bot
            /\ bot_pool'[wk[w].bot] =
                  [status |-> "assigned",
                   assigned_to_client_id |-> wk[w].client]
            /\ \A a \in BotIds \ {wk[w].bot} : bot_pool'[a] = bot_pool[a]

Holding(c) ==
    {b \in BotIds : /\ bot_pool[b] # NoRow
                    /\ bot_pool[b].status = "assigned"
                    /\ bot_pool[b].assigned_to_client_id = c}

ReleaseStarts(w) == wk[w].pc = "idle" /\ wk'[w].op = "release_bot"

\* the call before this one was release_bot for tenant c, and it has
\* returned
JustReleased(c) ==
    \E v \in Workers : /\ wk[v].op = "release_bot"
                        /\ wk[v].pc = "done"
                        /\ wk[v].client = c
                        /\ wk[v].id = ops

\* C25: release_bot(tenant) returns true and sets the tenant's assigned
\* bot to available with no owner when there is one; it returns false and
\* changes nothing when there is none; a second release_bot directly after
\* a first one returns false and leaves the pool as the first call left it.
ReleaseIdempotentStep ==
    \A w \in Workers :
        LET c == wk'[w].client IN
        /\ ReleaseStarts(w) =>
            /\ IF Holding(c) = {}
               THEN /\ wk'[w].pc = "done"
                    /\ wk'[w].result = "False"
               ELSE /\ wk'[w].pc = "release_commit"
                    /\ wk'[w].bot \in Holding(c)
            /\ bot_pool' = bot_pool
            /\ JustReleased(c) =>
                    /\ wk'[w].pc = "done"
                    /\ wk'[w].result = "False"
        /\ (wk[w].pc = "release_commit" /\ wk'[w] # wk[w]) =>
            /\ wk'[w].pc = "done"
            /\ wk'[w].result = "True"
            /\ bot_pool'[wk[w].bot] =
                  [status |-> "available", assigned_to_client_id |-> None]
            /\ \A a \in BotIds \ {wk[w].bot} : bot_pool'[a] = bot_pool[a]

IsRetired(pool, b) == pool[b] # NoRow /\ pool[b].status = "retired"

RetireStarts(w) == wk[w].pc = "idle" /\ wk'[w].op = "retire_bot"

\* C26: retire_bot(id) sets an existing bot, whatever its status, to
\* retired with no owner and returns true; for an unknown id it returns
\* false and changes nothing; a retired bot stays retired without owner
\* through every later claim_bot, release_bot and retire_bot.
RetireTerminalStep ==
    /\ \A w \in Workers :
        /\ RetireStarts(w) =>
            /\ IF bot_pool[wk'[w].bot] = NoRow
               THEN /\ wk'[w].pc = "done"
                    /\ wk'[w].result = "False"
               ELSE wk'[w].pc = "retire_commit"
            /\ bot_pool' = bot_pool
        /\ (wk[w].pc = "retire_commit" /\ wk'[w] # wk[w]) =>
            /\ wk'[w].pc = "done"
            /\ wk'[w].result = "True"
            /\ bot_pool'[wk[w].bot] =
                  [status |-> "retired", assigned_to_client_id |-> None]
            /\ \A a \in BotIds \ {wk[w].bot} : bot_pool'[a] = bot_pool[a]
    /\ \A b \in BotIds :
        IsRetired(bot_pool, b) =>
            bot_pool'[b] =
                [status |-> "retired", assigned_to_client_id |-> None]

RetireTerminal == [][RetireTerminalStep]_vars

\* the bot of the first tenant was retired while assigned; the tenant's
\* release after that found nothing to release and the bot is still retired
RetireTerminalWitness ==
    \E w, v \in Workers :
        /\ wk[v].op = "retire_bot" /\ wk[v].pc = "done"
        /\ wk[v].result = "True"
        /\ wk[v].snap = BotRow(ASSIGNED, 1)
        /\ wk[w].op = "release_bot" /\ wk[w].pc = "done"
        /\ wk[w].client = 1
        /\ wk[w].result = "False"
        /\ wk[w].id > wk[v].id
        /\ bot_pool[wk[v].bot] = BotRow(RETIRED, None)

\* the intents of which a keyword is read in the text
Mentions(message) ==
    CASE message = "help me configure" -> {"setup", "help"}
      [] message = "please connect my calendar" -> {"setup"}
      [] message = "Add Credits" -> {"setup", "account"}
      [] message = "how many credits?" -> {"account", "help"}
      [] message = "explain my plan" -> {"account", "help"}
      [] message = "What can you do?" -> {"help"}
      [] message = "my address" -> {"setup"}
      [] message = "help me send a letter" -> {"help"}
      [] OTHER -> {}

Priority(found) ==
    IF "setup" \in found THEN "setup"
    ELSE IF "account" \in found THEN "account"
    ELSE IF "help" \in found THEN "help"
    ELSE "task"

HandlerTable(intent) ==
    CASE intent = "setup" -> "SetupOrchestrator"
      [] intent = "task" -> "AgentEngine"
      [] intent = "account" -> "AccountManager"
      [] intent = "help" -> "HelpResponder"

Routed(w) == wk[w].op = "route" /\ wk[w].pc = "done"

\* C27: classify_intent returns Setup if the lower-cased message contains a
\* Setup keyword, otherwise Account if it contains an Account keyword,
\* otherwise Help if it contains a Help keyword, otherwise Task; "help me
\* configure" and "please connect my calendar" are Setup; route() names the
\* handler of the intent by the fixed table.
IntentPriority ==
    \A w \in Workers :
        Routed(w) =>
            /\ wk[w].intent = Priority(Mentions(wk[w].msg))
            /\ wk[w].result = HandlerTable(wk[w].intent)
            /\ wk[w].msg \in {"help me configure",
                               "please connect my calendar"}
                    => wk[w].intent = "setup"

\* "help me configure" went to the setup orchestrator while "explain my
\* plan" went to the account manager
IntentPriorityWitness ==
    \E w, v \in Workers :
        /\ Routed(w)
        /\ wk[w].msg = "help me configure"
        /\ wk[w].result = "SetupOrchestrator"
        /\ Routed(v)
        /\ wk[v].msg = "explain my plan"
        /\ wk[v].intent = "account"
        /\ wk[v].result = "AccountManager"

\* C28: when claim_bot raises pool-exhausted during claim_agent, the caller
\* gets a 503 and no record of the partially created tenant remains: no
\* client row, no agent config, no channel and no credit account.
OnboardingRollback ==
    \A w \in Workers :
        (wk[w].op = "claim_agent" /\ wk[w].pc = "done"
            /\ wk[w].outcome = EXHAUSTED) =>
            /\ wk[w].result = "503"
            /\ wk[w].client \notin clients
            /\ wk[w].client \notin agent_configs
            /\ channels[wk[w].client] = None
            /\ credit_accounts[wk[w].client] = NoRow

\* what a reader of the delivered events expects to be granted: the client,
\* the credits and the id of the event, or nothing
ExpectedGrant(name) ==
    CASE name = "checkout" ->
            [client |-> 1, amount |-> 1, event_id |-> "evt_1"]
      [] name = "renewal by tier" ->
            [client |-> 1, amount |-> 7, event_id |-> "evt_2"]
      [] name = "credit_amount" ->
            [client |-> 2, amount |-> 1, event_id |-> "evt_3"]
      [] name = "no id" ->
            [client |-> 2, amount |-> 1, event_id |-> ""]
      [] OTHER -> NoRow

StripeStarts(w) == wk[w].pc = "idle" /\ wk'[w].op = "stripe_event"

\* C29: for a delivered checkout.session.completed or invoice.paid event
\* with a positive client id and a positive credit amount (given directly
\* or through the tier table) _handle_stripe_event calls add_credits once,
\* with that client, that amount and a source naming the event id; for any
\* other event type, or without client id or credits, it calls nothing and
\* changes nothing.  Every delivery is handled by itself: the same event
\* delivered twice is granted twice.
PaymentEventsStep ==
    \A w \in Workers :
        /\ StripeStarts(w) =>
            LET expected == ExpectedGrant(wk'[w].event) IN
            /\ UNCHANGED <<dbLedger, dbTenant, dbPool, dbSetup>>
            /\ IF expected = NoRow
               THEN /\ wk'[w].pc = "done"
                    /\ wk'[w].source = "none"
               ELSE /\ wk'[w].pc = "add_commit"
                    /\ wk'[w].client = expected.client
                    /\ wk'[w].amount = expected.amount
                    /\ IsSubstring(expected.event_id, wk'[w].source)
        /\ (wk[w].op = "stripe_event" /\ wk[w].pc = "add_commit"
                /\ wk'[w] # wk[w]) =>
            /\ wk'[w].pc = "done"
            /\ \/ /\ wk'[w].result = "True"
                  /\ Len(credit_transactions') =
                        Len(credit_transactions) + 1
               \/ /\ wk'[w].result = "IntegrityError"
                  /\ UNCHANGED dbLedger

PaymentEvents ==
    /\ [](\A w \in Workers :
            wk[w].op = "stripe_event" =>
                LET expected == ExpectedGrant(wk[w].event)
                    rows == TxnsBy(wk[w].id) IN
                /\ expected = NoRow => rows = <<>>
                /\ Len(rows) <= 1
                /\ wk[w].result = "True" =>
                        /\ Len(rows) = 1
                        /\ rows[1].client_id = expected.client
                        /\ rows[1].amount = expected.amount)
    /\ [][PaymentEventsStep]_vars

\* the checkout event was delivered twice, one delivery after the other,
\* to a client without account: two transactions, and a balance of two
\* credits
PaymentEventsWitness ==
    \E w, v \in Workers :
        /\ w # v
        /\ wk[w].event = "checkout" /\ wk[w].result = "True"
        /\ wk[v].event = "checkout" /\ wk[v].result = "True"
        /\ Len(TxnsBy(wk[w].id)) = 1
        /\ Len(TxnsBy(wk[v].id)) = 1
        /\ IsSubstring("evt_1", wk[w].source)
        /\ IsSubstring("evt_1", wk[v].source)
        /\ credit_accounts[1] =
              [balance |-> 2, total_purchased |-> 2, total_used |-> 0]

\* the seconds of the call that a form reports; nothing for a form without
\* duration, with a duration that is no whole number, or with a duration
\* that is not positive
DurationSeconds(name) ==
    CASE name = "59s" -> 59
      [] name = "60s" -> 60
      [] name = "61s" -> 61
      [] name = "125s" -> 125
      [] name = "seconds field" -> 61
      [] OTHER -> 0

\* ceil(d / 60): the least number of whole minutes that cover d seconds
BilledMinutes(d) ==
    IF d <= 0 THEN 0
    ELSE CHOOSE m \in 1..d : 60 * m >= d /\ 60 * (m - 1) < d

VoiceCall(w) == wk[w].op = "dispatch" /\ wk[w].channel = "voip"

\* C30: a voice webhook on a configured number bills the duration d of the
\* call as ceil(d / 60) minutes times COST_VOIP_PER_MIN, through one
\* deduct_credits call that is made after the reply was built; when the
\* duration is missing, no number or not positive, no usage deduct is
\* attempted.
VoiceUsageStep ==
    \A w \in Workers :
        VoiceCall(w) =>
            /\ (wk[w].pc = "replied" /\ wk'[w] # wk[w]) =>
                LET minutes == BilledMinutes(DurationSeconds(wk'[w].form))
                    total == minutes * COST_VOIP_PER_MIN IN
                /\ UNCHANGED dbLedger
                /\ wk'[w].usage = total
                /\ IF minutes = 0
                   THEN wk'[w].pc = "done" /\ wk'[w].result = "sent"
                   ELSE IF Sufficient(credit_accounts[wk[w].client], total)
                   THEN wk'[w].pc = "usage_commit"
                   ELSE wk'[w].pc = "done" /\ wk'[w].result = "False"
            /\ (wk[w].pc = "usage_commit" /\ wk'[w] # wk[w]) =>
                /\ credit_transactions' = Append(credit_transactions,
                        Transaction(wk[w].client, -wk[w].usage, DEDUCT,
                                    wk[w].id))
                /\ wk'[w].pc = "done" /\ wk'[w].result = "True"
            /\ (wk[w].pc \notin {"replied", "done"}) =>
                wk'[w].usage = wk[w].usage /\ wk'[w].form = wk[w].form

VoiceUsage ==
    /\ [](\A w \in Workers :
            VoiceCall(w) =>
                /\ wk[w].reply = "none" =>
                        wk[w].usage = 0 /\ wk[w].form = "none"
                /\ Len(TxnsByType(wk[w].id, DEDUCT)) =
                        (IF wk[w].deducted THEN 1 ELSE 0)
                        + (IF wk[w].result = "True" THEN 1 ELSE 0))
    /\ [][VoiceUsageStep]_vars

\* a call of 125 seconds was answered by the runtime and then billed as
\* three minutes: six credits were deducted in one transaction
VoiceUsageWitness ==
    \E w \in Workers :
        /\ VoiceCall(w)
        /\ wk[w].form = "125s"
        /\ wk[w].reply = RESPONSE
        /\ wk[w].usage = 6
        /\ wk[w].result = "True"
        /\ \E i \in 1..Len(credit_transactions) :
                credit_transactions[i] =
                    Transaction(wk[w].client, -6, DEDUCT, wk[w].id)

\* the number that callers dial for the tenants' Twilio channels
IsTenantsNumber(to_number) == to_number = " +1 (555) 0001"

\* an active channel exists for the event that rec describes
HasActiveChannel(rec) ==
    IF rec.hook = "telegram"
    THEN channels[rec.client] # None /\ channel_active[rec.client]
    ELSE /\ IsTenantsNumber(rec.to)
         /\ \E i \in 1..Len(twilio_channels) : twilio_channels[i].active

EventStarts(w) == wk[w].pc = "idle" /\ wk'[w].hook # "none"

\* the event was answered by its webhook without a dispatch
Refused(rec) == rec.hook # "none" /\ rec.op # "dispatch"

\* C31: an inbound Telegram, SMS or voice event for which no active channel
\* is found (there is none, or the channel has active = false) is never
\* dispatched: it is not routed, no setup session and no credit row is
\* written, and no reply of the agent is sent for it.
ActiveChannelGateStep ==
    \A w \in Workers :
        /\ (EventStarts(w) /\ ~HasActiveChannel(wk'[w])) =>
            /\ Refused(wk'[w])
            /\ UNCHANGED <<dbSetup, dbLedger, dbTenant, dbPool>>
        /\ (Refused(wk[w]) /\ wk'[w] # wk[w]) =>
            /\ wk'[w] = IdleWorker
            /\ UNCHANGED <<dbSetup, dbLedger, dbTenant, dbPool>>

ActiveChannelGate ==
    /\ [](\A w \in Workers :
            Refused(wk[w]) =>
                /\ wk[w].pc = "done"
                /\ wk[w].intent = "none"
                /\ wk[w].reply = "none"
                /\ wk[w].sid = None
                /\ wk[w].result # "sent"
                /\ TxnsBy(wk[w].id) = <<>>)
    /\ [][ActiveChannelGateStep]_vars

\* an SMS with a text arrived for the tenants' number while the only
\* channel with that number was switched off, and a Telegram message
\* arrived for a tenant whose channel was switched off: both were answered
\* without a dispatch
ActiveChannelGateWitness ==
    \E w, v \in Workers :
        /\ wk[w].op = "sms_webhook" /\ wk[w].msg = "hello"
        /\ IsTenantsNumber(wk[w].to)
        /\ wk[w].result = "No matching Twilio channel"
        /\ Len(twilio_channels) = 1 /\ ~twilio_channels[1].active
        /\ wk[v].op = "telegram_webhook" /\ wk[v].msg = "hello"
        /\ channels[wk[v].client] # None
        /\ ~channel_active[wk[v].client]
        /\ wk[v].result = "No active Telegram channel configured"

\* the kind of transaction that the claim gives to a source label
KindOfSource(source) ==
    IF /\ Len(source) >= Len("Stripe checkout purchase")
       /\ SubSeq(source, 1, Len("Stripe checkout purchase"))
            = "Stripe checkout purchase"
    THEN PURCHASE
    ELSE WELCOME

AddCommits(w) == wk[w].pc = "add_commit" /\ wk'[w].pc # wk[w].pc

\* C32: add_credits creates the account of a tenant that has none, with
\* balance = total_purchased = amount and total_used = 0, and otherwise
\* raises balance and total_purchased by the amount and leaves total_used;
\* in both cases the same commit appends exactly one transaction of
\* +amount, PURCHASE when the source mentions "purchase" and WELCOME
\* otherwise.
AddCreditsStep ==
    \A w \in Workers :
        AddCommits(w) =>
            LET c == wk[w].client
                amt == wk[w].amount
                account == credit_accounts[c] IN
            /\ credit_accounts'[c] =
                  IF account = NoRow
                  THEN [balance |-> amt, total_purchased |-> amt,
                        total_used |-> 0]
                  ELSE [balance |-> account.balance + amt,
                        total_purchased |-> account.total_purchased + amt,
                        total_used |-> account.total_used]
            /\ credit_transactions' = Append(credit_transactions,
                  Transaction(c, amt, KindOfSource(wk[w].source), wk[w].id))

AddCreditsContract == [][AddCreditsStep]_vars

Compiled(w) == wk[w].op = "compile"

\* C33: SystemPromptCompiler.compile is a pure function: calls with the same
\* agent_name, personality, language and custom_instructions return the same
\* text, whatever the state and whatever ran in between, and a call writes
\* nothing.
PromptDeterminismStep ==
    \A w \in Workers :
        (wk[w].pc = "idle" /\ Compiled(w)') =>
            UNCHANGED <<dbSetup, dbTenant, dbLedger, dbPool>>

InferenceInvoked(w) ==
    wk[w].op = "dispatch" /\ wk[w].deducted /\ wk[w].pc # "deduct_commit"

\* C34: in the Task path, after the deduct has succeeded, the system prompt
\* passed to the inference adapter is compile(the tenant's current
\* AgentConfig); the stored compiled prompt is no source of its own.
PromptFromConfig ==
    \A w \in Workers :
        InferenceInvoked(w) =>
            wk[w].prompt = Compile(AgentConfigRow(wk[w].client))

DeductsBy(w) == TxnsByType(wk[w].id, DEDUCT)

\* C35: within one dispatch the inference adapter is invoked at most once
\* and never again after a failure, and only after a DEDUCT transaction of
\* that dispatch has been committed; no dispatch invokes it before or
\* without its deduct.
DeductBeforeWorkStep ==
    \A w \in Workers :
        (wk[w].op = "dispatch" /\ wk'[w].op = "dispatch"
            /\ wk'[w].runs > wk[w].runs) =>
            /\ wk[w].runs = 0
            /\ Len(TxnsByType(wk[w].id, DEDUCT)') = 1
            /\ TxnsByType(wk[w].id, DEDUCT)'[1] =
                  Transaction(wk[w].client, -CreditCost(wk[w].channel),
                              DEDUCT, wk[w].id)

DeductBeforeWork ==
    /\ [](\A w \in Workers :
            wk[w].op = "dispatch" =>
                /\ wk[w].runs <= 1
                /\ wk[w].pc = "running" => wk[w].runs = 1
                /\ wk[w].outcome # "none" => wk[w].runs = 1
                /\ wk[w].runs = 1 =>
                        /\ DeductsBy(w) # <<>>
                        /\ DeductsBy(w)[1].amount =
                                -CreditCost(wk[w].channel)
                /\ DeductsBy(w) = <<>> => wk[w].reply # RESPONSE)
    /\ [][DeductBeforeWorkStep]_vars

\* the inference of a dispatch failed after its deduct: it was invoked
\* once, the credit was refunded and the apology returned
DeductBeforeWorkWitness ==
    \E w \in Workers :
        /\ wk[w].op = "dispatch"
        /\ wk[w].outcome = "error"
        /\ wk[w].reply = APOLOGY
        /\ wk[w].runs = 1
        /\ Len(DeductsBy(w)) = 1
        /\ Len(TxnsByType(wk[w].id, REFUND)) = 1

HasOpenSession(c) ==
    \E i \in 1..Len(setup_sessions) :
        /\ setup_sessions[i].client_id = c
        /\ setup_sessions[i].completed_at = None

\* C36: for a tenant with an open setup session every message that enters
\* _dispatch_incoming_message is handled by SetupOrchestrator, against the
\* open session, and causes no credit deduct, whatever intent its keywords
\* classify to.
SessionCaptureStep ==
    \A w \in Workers :
        (DispatchStarts(w) /\ HasOpenSession(wk'[w].client)) =>
            /\ wk'[w].sid # None
            /\ wk'[w].pc # "deduct_commit"
            /\ wk'[w].amount = 0

SessionCapture == [][SessionCaptureStep]_vars


\* C37: in every committed state every open setup session (completed_at
\* null) has 0 <= current_step < the number of steps of its flow; the
\* commits of _continue_flow and a failing execute are committed states
\* like any other.
StepIndexInRange(row) ==
    /\ 0 <= row.current_step
    /\ row.current_step < Len(Steps(Flows(row.flow_name)))

OwnsAtMostOne ==
    \A c \in ClientIds : Cardinality(AssignedTo(bot_pool, c)) <= 1

ReleaseReturnsTrue(w) ==
    /\ wk[w].op = "release_bot"
    /\ wk[w].pc = "release_commit"
    /\ wk'[w].pc = "done"
    /\ wk'[w].result = "True"

ReleaseLeavesNoneStep ==
    \A w \in Workers :
        ReleaseReturnsTrue(w)
            => /\ AssignedTo(bot_pool', wk[w].client) = {}
               /\ GetBotForClient(bot_pool', wk[w].client) = None

OneResourcePerTenant == []OwnsAtMostOne /\ [][ReleaseLeavesNoneStep]_vars

\* C39: every Telegram or SMS event with text and an active channel gets
\* exactly one reply: its handler ends having performed exactly one
\* outbound send, never more than one on the way, the sent text is the
\* fallback apology when the dispatch raised, and the handler returns
\* its answer and no exception.
AcceptedEvent(rec) ==
    /\ rec.hook \in {"telegram", "sms"}
    /\ rec.op = "dispatch"

HandlerEnds(w) ==
    /\ AcceptedEvent(wk[w])
    /\ wk[w].pc # "done"
    /\ wk'[w].pc = "done"

DispatchRaised(rec) == rec.pc = "replied" /\ rec.result = "AttributeError"

OneReplyStep ==
    \A w \in Workers :
        HandlerEnds(w)
            => /\ wk'[w].sends = 1
               /\ wk'[w].result = "sent"
               /\ DispatchRaised(wk[w])
                    => wk'[w].sent = IF wk[w].hook = "sms"
                                     THEN SMS_FALLBACK
                                     ELSE TELEGRAM_FALLBACK

AtMostOneSend ==
    \A w \in Workers : AcceptedEvent(wk[w]) => wk[w].sends <= 1

ExactlyOneReply == []AtMostOneSend /\ [][OneReplyStep]_vars

\* C40: every credit grant made by _handle_stripe_event, for a
\* checkout.session.completed and for an invoice.paid event alike, appends
\* a transaction of kind PURCHASE (never WELCOME) to the tenant's ledger.
StripeGrantCommits(w) ==
    /\ wk[w].op = "stripe_event"
    /\ AddCommits(w)
    /\ Events[wk[w].event].type \in StripeGrantEvents
    /\ Len(credit_transactions') = Len(credit_transactions) + 1

PaidGrantStep ==
    \A w \in Workers :
        StripeGrantCommits(w) =>
            LET appended == credit_transactions'[Len(credit_transactions')] IN
            /\ appended.client_id = wk[w].client
            /\ appended.amount = wk[w].amount
            /\ appended.type = PURCHASE

PaidGrantsArePurchases == [][PaidGrantStep]_vars
=============================================================================
